---- MODULE Spec2Model ----
(***************************************************************************)
(* A model of the in-memory feature registry (MemoryRegistry) and of the   *)
(* objects it stores.  Python objects live in a heap and are referred to   *)
(* by identity, so that storing a reference (apply) and copying an object  *)
(* (get, list) are different things, as they are in the code.              *)
(***************************************************************************)
EXTENDS Naturals, Integers, Sequences, FiniteSets, TLC

(* ------------------------------ bounds -------------------------------- *)
\* number of objects the caller constructs in one behaviour
MaxObjs == 2
\* number of objects returned by reads that readers keep
MaxReads == 2
\* last value of the clock (datetime.utcnow()); 0 stands for None
MaxTime == 2
\* longest materialization log
MaxLog == 2
\* most rows, one per version, in the registry table
MaxRows == 2
\* most rows of an input batch
MaxBatch == 2
\* concurrent callers of apply
MaxCallers == 2

(* ------------------------------ domains ------------------------------- *)
\* Strings are sequences of characters, so that building and splitting a
\* projected key are computed, not assumed.
Projects == { <<"p">>, <<"q">> }
Names == { <<"a">>, <<"b">> }
Intervals == { <<1, 2>>, <<2, 3>> }
TagKeys == { "team" }
Modes == { "python", "pandas" }
NoTime == 0

EntityKind == "Entity"
DataSourceKind == "DataSource"
FeatureServiceKind == "FeatureService"
BatchKind == "FeatureView"
StreamKind == "StreamFeatureView"
OnDemandKind == "OnDemandFeatureView"
RequestKind == "RequestFeatureView"
SavedDatasetKind == "SavedDataset"
ViewKinds == { BatchKind, StreamKind, OnDemandKind, RequestKind }
Kinds == { EntityKind, DataSourceKind, FeatureServiceKind } \cup ViewKinds

VARIABLES
    heap,       \* the objects the caller constructed, by identity 1..Len(heap)
    tagcell,    \* the tags dict created with object i
    logcell,    \* the materialization_intervals list created with object i
    registry,   \* the dicts of MemoryRegistry, by attribute name
    held,       \* the objects reads have returned to readers, one holder each
    clock,      \* datetime.utcnow()
    last,       \* the latest call: which operation, and how it ended
    db_up,      \* whether the MySQL server answers
    table,      \* the registry table of the MySQL database
    written,    \* the proto last handed to update_registry_proto
    call,       \* the latest call on the MySQL store and what it returned
    definition, \* the on-demand feature view whose transformation is executed
    batch,      \* the input the caller hands to the transformation
    result,     \* what the latest execution returned or raised
    callers     \* the calls of apply in progress, one per concurrent caller

registryvars == << heap, tagcell, logcell, registry, held, clock, last >>
storevars == << db_up, table, written, call >>
enginevars == << definition, batch, result >>
racevars == << callers >>

\* the state outside MemoryRegistry and its callers
others == << storevars, enginevars, racevars >>

vars == << heap, tagcell, logcell, registry, held, clock, last, others >>

(* ------------------------- keys (memory.py 31-38) ---------------------- *)
project_key(project, key) == project \o <<":">> \o key

\* str.split(":"): the pieces between the separators
RECURSIVE split(_)
split(s) ==
    IF \A i \in 1..Len(s) : s[i] # ":"
    THEN << s >>
    ELSE LET i == CHOOSE j \in 1..Len(s) :
                     s[j] = ":" /\ \A k \in 1..(j - 1) : s[k] # ":"
         IN << SubSeq(s, 1, i - 1) >> \o split(SubSeq(s, i + 1, Len(s)))

invert_projected_key(projected_key) ==
    LET s == split(projected_key)
    IN IF Len(s) # 2
       THEN [status |-> "RegistryError"]
       ELSE [status |-> "ok", value |-> << s[1], s[2] >>]

(* ------------------- dicts, in insertion order ------------------------- *)
\* a dict is a sequence of [k, v] without repeated k
Has(d, k) == \E i \in 1..Len(d) : d[i].k = k
Lookup(d, k) == d[CHOOSE i \in 1..Len(d) : d[i].k = k].v
\* d[k] = v
Put(d, k, v) ==
    IF Has(d, k)
    THEN [i \in 1..Len(d) |-> IF d[i].k = k THEN [k |-> k, v |-> v] ELSE d[i]]
    ELSE Append(d, [k |-> k, v |-> v])
\* del d[k]
Del(d, k) ==
    LET i == CHOOSE j \in 1..Len(d) : d[j].k = k
    IN SubSeq(d, 1, i - 1) \o SubSeq(d, i + 1, Len(d))

(* ------------------------------ objects -------------------------------- *)
\* An object as its constructor leaves it.  tags and materialization_intervals
\* are references to the dict and the list created with the object.
NewObject(kind, name, mode, id) ==
    [ kind |-> kind, name |-> name, description |-> 0, mode |-> mode,
      created_timestamp |-> NoTime, last_updated_timestamp |-> NoTime,
      tags |-> id, materialization_intervals |-> id ]

\* OnDemandFeatureView.__init__ without the test of the mode
OnDemandFeatureView__init__any_mode(kw) ==
    IF "mode" \notin DOMAIN kw
    THEN [status |-> "TypeError"]
    ELSE [status |-> "ok",
          value |-> [ kind |-> OnDemandKind, name |-> kw.name,
                      description |-> kw.description, mode |-> kw.mode,
                      created_timestamp |-> NoTime,
                      last_updated_timestamp |-> NoTime,
                      tags |-> kw.tags,
                      materialization_intervals |-> kw.tags ]]

\* OnDemandFeatureView.__init__: mode is a required keyword-only argument
OnDemandFeatureView__init__(kw) ==
    IF "mode" \notin DOMAIN kw
    THEN [status |-> "TypeError"]
    ELSE IF kw.mode \notin Modes
    THEN [status |-> "Exception"]
    ELSE [status |-> "ok",
          value |-> [ kind |-> OnDemandKind, name |-> kw.name,
                      description |-> kw.description, mode |-> kw.mode,
                      created_timestamp |-> NoTime,
                      last_updated_timestamp |-> NoTime,
                      tags |-> kw.tags,
                      materialization_intervals |-> kw.tags ]]

\* OnDemandFeatureView.__copy__: calls the constructor with name, schema,
\* sources, udf, udf_string, description, tags and owner
OnDemandFeatureView__copy__(self) ==
    OnDemandFeatureView__init__(
        [ name |-> self.name, description |-> self.description,
          tags |-> self.tags ])

\* copy.copy of an object whose class defines no __copy__: a new object whose
\* attributes are bound to the same values as the original's
ShallowCopy(obj) == [f \in DOMAIN obj |-> obj[f]]

copy_copy(obj) ==
    IF obj.kind = OnDemandKind
    THEN OnDemandFeatureView__copy__(obj)
    ELSE [status |-> "ok", value |-> ShallowCopy(obj)]

\* isinstance(feature_view, cls): StreamFeatureView is a subclass of FeatureView
isinstance(kind, cls) ==
    \/ kind = cls
    \/ kind = StreamKind /\ cls = BatchKind

(* --------------------------- MemoryRegistry ---------------------------- *)
EmptyRegistry ==
    [ entities |-> << >>, data_sources |-> << >>, feature_services |-> << >>,
      stream_feature_views |-> << >>, feature_views |-> << >>,
      on_demand_feature_views |-> << >>, request_feature_views |-> << >>,
      saved_datasets |-> << >> ]

\* fv_registries with the batch views first
fv_registries_batch_first ==
    << "feature_views", "stream_feature_views", "on_demand_feature_views",
       "request_feature_views" >>

fv_registries ==
    << "stream_feature_views", "feature_views", "on_demand_feature_views",
       "request_feature_views" >>

\* the attribute that holds the objects of a kind
RegistryOf(kind) ==
    CASE kind = EntityKind -> "entities"
      [] kind = DataSourceKind -> "data_sources"
      [] kind = FeatureServiceKind -> "feature_services"
      [] kind = StreamKind -> "stream_feature_views"
      [] kind = BatchKind -> "feature_views"
      [] kind = OnDemandKind -> "on_demand_feature_views"
      [] kind = RequestKind -> "request_feature_views"
      [] kind = SavedDatasetKind -> "saved_datasets"

\* _fv_registry with the FeatureView test first: a stream view, being a
\* FeatureView too, lands in the batch dict
_fv_registry_batch_first(kind) ==
    IF isinstance(kind, BatchKind) THEN [status |-> "ok", value |-> "feature_views"]
    ELSE IF isinstance(kind, StreamKind) THEN [status |-> "ok", value |-> "stream_feature_views"]
    ELSE IF isinstance(kind, OnDemandKind) THEN [status |-> "ok", value |-> "on_demand_feature_views"]
    ELSE IF isinstance(kind, RequestKind) THEN [status |-> "ok", value |-> "request_feature_views"]
    ELSE [status |-> "UnknownKind"]

\* _fv_registry that takes an object of no variant for a batch view
_fv_registry_default_batch(kind) ==
    IF isinstance(kind, StreamKind) THEN [status |-> "ok", value |-> "stream_feature_views"]
    ELSE IF isinstance(kind, OnDemandKind) THEN [status |-> "ok", value |-> "on_demand_feature_views"]
    ELSE IF isinstance(kind, RequestKind) THEN [status |-> "ok", value |-> "request_feature_views"]
    ELSE [status |-> "ok", value |-> "feature_views"]

_fv_registry(kind) ==
    IF isinstance(kind, StreamKind) THEN [status |-> "ok", value |-> "stream_feature_views"]
    ELSE IF isinstance(kind, BatchKind) THEN [status |-> "ok", value |-> "feature_views"]
    ELSE IF isinstance(kind, OnDemandKind) THEN [status |-> "ok", value |-> "on_demand_feature_views"]
    ELSE IF isinstance(kind, RequestKind) THEN [status |-> "ok", value |-> "request_feature_views"]
    ELSE [status |-> "UnknownKind"]

\* what the caller sees of a call: the operation, and "ok" or the error raised
Call(fn, status) == [ fn |-> fn, status |-> status ]

\* a step of a caller or reader that is no registry call
NoCall == Call("none", "ok")

ObjIds == 1..Len(heap)

(* ------------------------------- reads --------------------------------- *)
\* the body shared by the get_* methods: look the key up, return a copy
get_from(attr, name, project) ==
    LET key == project_key(project, name)
    IN IF ~Has(registry[attr], key)
       THEN [status |-> "NotFound"]
       ELSE copy_copy(heap[Lookup(registry[attr], key)])

get_entity(name, project) == get_from("entities", name, project)
get_data_source(name, project) == get_from("data_sources", name, project)
get_feature_service(name, project) == get_from("feature_services", name, project)
get_stream_feature_view(name, project) == get_from("stream_feature_views", name, project)
get_on_demand_feature_view(name, project) == get_from("on_demand_feature_views", name, project)
get_feature_view(name, project) == get_from("feature_views", name, project)
get_request_feature_view(name, project) == get_from("request_feature_views", name, project)

get(kind, name, project) ==
    CASE kind = EntityKind -> get_entity(name, project)
      [] kind = DataSourceKind -> get_data_source(name, project)
      [] kind = FeatureServiceKind -> get_feature_service(name, project)
      [] kind = StreamKind -> get_stream_feature_view(name, project)
      [] kind = OnDemandKind -> get_on_demand_feature_view(name, project)
      [] kind = BatchKind -> get_feature_view(name, project)
      [] kind = RequestKind -> get_request_feature_view(name, project)

\* the list comprehension of list_registry_dict, from item i on: the first
\* key that does not split in two, or the first copy that fails, ends it
RECURSIVE list_items(_, _, _)
list_items(project, d, i) ==
    IF i > Len(d)
    THEN [status |-> "ok", value |-> << >>]
    ELSE LET inv == invert_projected_key(d[i].k)
         IN IF inv.status # "ok"
            THEN [status |-> inv.status]
            ELSE IF inv.value[1] # project
            THEN list_items(project, d, i + 1)
            ELSE LET c == copy_copy(heap[d[i].v])
                     rest == list_items(project, d, i + 1)
                 IN IF c.status # "ok" THEN [status |-> c.status]
                    ELSE IF rest.status # "ok" THEN rest
                    ELSE [status |-> "ok", value |-> << c.value >> \o rest.value]

list_registry_dict(project, d) == list_items(project, d, 1)

list_entities(project) == list_registry_dict(project, registry.entities)
list_data_sources(project) == list_registry_dict(project, registry.data_sources)
list_feature_services(project) == list_registry_dict(project, registry.feature_services)
list_stream_feature_views(project) == list_registry_dict(project, registry.stream_feature_views)
list_on_demand_feature_views(project) == list_registry_dict(project, registry.on_demand_feature_views)
list_feature_views(project) == list_registry_dict(project, registry.feature_views)
list_request_feature_views(project) == list_registry_dict(project, registry.request_feature_views)

list(kind, project) ==
    CASE kind = EntityKind -> list_entities(project)
      [] kind = DataSourceKind -> list_data_sources(project)
      [] kind = FeatureServiceKind -> list_feature_services(project)
      [] kind = StreamKind -> list_stream_feature_views(project)
      [] kind = OnDemandKind -> list_on_demand_feature_views(project)
      [] kind = BatchKind -> list_feature_views(project)
      [] kind = RequestKind -> list_request_feature_views(project)

\* what a function returns when its body is pass or a docstring
None == [ kind |-> "NoneType" ]

get_saved_dataset(name, project) == [status |-> "ok", value |-> None]
list_saved_datasets(project) == [status |-> "ok", value |-> None]

\* a reader calls get_<kind>(name, project) and keeps the object returned
GetCall(kind, name, project) ==
    LET res == get(kind, name, project)
    IN /\ last' = Call("get", res.status)
       /\ IF res.status = "ok"
          THEN /\ Len(held) < MaxReads
               /\ held' = Append(held, res.value)
          ELSE UNCHANGED held
       /\ UNCHANGED << heap, tagcell, logcell, registry, clock, others >>

\* a reader calls list_<kind>s(project) and keeps the objects returned
ListCall(kind, project) ==
    LET res == list(kind, project)
    IN /\ last' = Call("list", res.status)
       /\ IF res.status = "ok"
          THEN /\ Len(held) + Len(res.value) <= MaxReads
               /\ held' = held \o res.value
          ELSE UNCHANGED held
       /\ UNCHANGED << heap, tagcell, logcell, registry, clock, others >>

(* ------------------------------- writes -------------------------------- *)
apply_entity(entity, project) ==
    LET now == clock
        stamped == [heap[entity] EXCEPT
                      !.created_timestamp = IF @ = NoTime THEN now ELSE @,
                      !.last_updated_timestamp = now]
        key == project_key(project, stamped.name)
    IN /\ heap[entity].kind = EntityKind
       /\ heap' = [heap EXCEPT ![entity] = stamped]
       /\ IF Has(registry.entities, key)
          THEN /\ last' = Call("apply", "Duplicate")
               /\ UNCHANGED registry
          ELSE /\ last' = Call("apply", "ok")
               /\ registry' = [registry EXCEPT !.entities = Put(@, key, entity)]
       /\ UNCHANGED << tagcell, logcell, held, clock, others >>

\* apply_to without the membership test: the new object replaces the stored one
apply_to_overwrite(attr, fn, obj, project) ==
    LET key == project_key(project, heap[obj].name)
    IN /\ last' = Call(fn, "ok")
       /\ registry' = [registry EXCEPT ![attr] = Put(@, key, obj)]
       /\ UNCHANGED << heap, tagcell, logcell, held, clock, others >>

\* the body shared by apply_data_source, apply_feature_service and, once the
\* dict is chosen, apply_feature_view
apply_to(attr, fn, obj, project) ==
    LET key == project_key(project, heap[obj].name)
    IN /\ IF Has(registry[attr], key)
          THEN /\ last' = Call(fn, "Duplicate")
               /\ UNCHANGED registry
          ELSE /\ last' = Call(fn, "ok")
               /\ registry' = [registry EXCEPT ![attr] = Put(@, key, obj)]
       /\ UNCHANGED << heap, tagcell, logcell, held, clock, others >>

apply_data_source(data_source, project) ==
    /\ heap[data_source].kind = DataSourceKind
    /\ apply_to("data_sources", "apply", data_source, project)

apply_feature_service(feature_service, project) ==
    /\ heap[feature_service].kind = FeatureServiceKind
    /\ apply_to("feature_services", "apply", feature_service, project)

apply_feature_view(feature_view, project) ==
    LET reg == _fv_registry(heap[feature_view].kind)
    IN IF reg.status # "ok"
       THEN /\ last' = Call("apply_feature_view", reg.status)
            /\ UNCHANGED << heap, tagcell, logcell, registry, held, clock, others >>
       ELSE apply_to(reg.value, "apply_feature_view", feature_view, project)

apply_saved_dataset(saved_dataset, project) ==
    /\ heap[saved_dataset].kind = SavedDatasetKind
    /\ apply_to("saved_datasets", "apply_saved_dataset", saved_dataset, project)

\* the body of delete_saved_dataset is its docstring
delete_saved_dataset(name, project) ==
    /\ last' = Call("delete_saved_dataset", "ok")
    /\ UNCHANGED << heap, tagcell, logcell, registry, held, clock, others >>

\* delete_from that removes the oldest entry of the dict, whatever its key
delete_from_oldest(attr, kind, name, project) ==
    LET key == project_key(project, name)
    IN /\ IF ~Has(registry[attr], key)
          THEN /\ last' = Call("delete", "NotFound")
               /\ UNCHANGED registry
          ELSE /\ last' = Call("delete", "ok")
               /\ registry' = [registry EXCEPT ![attr] = Tail(@)]
       /\ UNCHANGED << heap, tagcell, logcell, held, clock, others >>

\* the body shared by delete_entity, delete_data_source, delete_feature_service
delete_from(attr, kind, name, project) ==
    LET key == project_key(project, name)
    IN /\ IF ~Has(registry[attr], key)
          THEN /\ last' = Call("delete", "NotFound")
               /\ UNCHANGED registry
          ELSE /\ last' = Call("delete", "ok")
               /\ registry' = [registry EXCEPT ![attr] = Del(@, key)]
       /\ UNCHANGED << heap, tagcell, logcell, held, clock, others >>

delete_entity(name, project) == delete_from("entities", EntityKind, name, project)
delete_data_source(name, project) == delete_from("data_sources", DataSourceKind, name, project)
delete_feature_service(name, project) == delete_from("feature_services", FeatureServiceKind, name, project)

\* the first of fv_registries, from position i on, that holds the key
RECURSIVE first_holding(_, _)
first_holding(key, i) ==
    IF i > Len(fv_registries) THEN 0
    ELSE IF Has(registry[fv_registries[i]], key) THEN i
    ELSE first_holding(key, i + 1)

delete_feature_view(name, project) ==
    LET key == project_key(project, name)
        i == first_holding(key, 1)
    IN /\ IF i = 0
          THEN /\ last' = Call("delete_feature_view", "NotFound")
               /\ UNCHANGED registry
          ELSE /\ last' = Call("delete_feature_view", "ok")
               /\ registry' = [registry EXCEPT ![fv_registries[i]] = Del(@, key)]
       /\ UNCHANGED << heap, tagcell, logcell, held, clock, others >>

\* the loop of apply_materialization over every feature-view dict
materialization_registries_all == fv_registries

\* the registries apply_materialization looks in, in its order
materialization_registries == << "feature_views", "stream_feature_views" >>

\* apply_materialization that puts the new interval first
apply_materialization_prepend(feature_view, project, start_date, end_date) ==
    LET key == project_key(project, heap[feature_view].name)
        found == { i \in 1..Len(materialization_registries) :
                     Has(registry[materialization_registries[i]], key) }
    IN /\ heap[feature_view].kind \in ViewKinds
       /\ IF found = {}
          THEN /\ last' = Call("apply_materialization", "NotFound")
               /\ UNCHANGED << heap, logcell >>
          ELSE LET i == CHOOSE j \in found : \A k \in found : j <= k
                   fv == Lookup(registry[materialization_registries[i]], key)
                   cell == heap[fv].materialization_intervals
               IN /\ Len(logcell[cell]) < MaxLog
                  /\ logcell' = [logcell EXCEPT
                                   ![cell] = << << start_date, end_date >> >> \o @]
                  /\ heap' = [heap EXCEPT ![fv].last_updated_timestamp = clock]
                  /\ last' = Call("apply_materialization", "ok")
       /\ UNCHANGED << tagcell, registry, held, clock, others >>

\* apply_materialization that stamps the view with the start of the interval
apply_materialization_stamp_start(feature_view, project, start_date, end_date) ==
    LET key == project_key(project, heap[feature_view].name)
        found == { i \in 1..Len(materialization_registries) :
                     Has(registry[materialization_registries[i]], key) }
    IN /\ heap[feature_view].kind \in ViewKinds
       /\ IF found = {}
          THEN /\ last' = Call("apply_materialization", "NotFound")
               /\ UNCHANGED << heap, logcell >>
          ELSE LET i == CHOOSE j \in found : \A k \in found : j <= k
                   fv == Lookup(registry[materialization_registries[i]], key)
                   cell == heap[fv].materialization_intervals
               IN /\ Len(logcell[cell]) < MaxLog
                  /\ logcell' = [logcell EXCEPT
                                   ![cell] = Append(@, << start_date, end_date >>)]
                  /\ heap' = [heap EXCEPT ![fv].last_updated_timestamp = start_date]
                  /\ last' = Call("apply_materialization", "ok")
       /\ UNCHANGED << tagcell, registry, held, clock, others >>

apply_materialization(feature_view, project, start_date, end_date) ==
    LET key == project_key(project, heap[feature_view].name)
        found == { i \in 1..Len(materialization_registries) :
                     Has(registry[materialization_registries[i]], key) }
    IN /\ heap[feature_view].kind \in ViewKinds
       /\ IF found = {}
          THEN /\ last' = Call("apply_materialization", "NotFound")
               /\ UNCHANGED << heap, logcell >>
          ELSE LET i == CHOOSE j \in found : \A k \in found : j <= k
                   fv == Lookup(registry[materialization_registries[i]], key)
                   cell == heap[fv].materialization_intervals
               IN /\ Len(logcell[cell]) < MaxLog
                  /\ logcell' = [logcell EXCEPT
                                   ![cell] = Append(@, << start_date, end_date >>)]
                  /\ heap' = [heap EXCEPT ![fv].last_updated_timestamp = clock]
                  /\ last' = Call("apply_materialization", "ok")
       /\ UNCHANGED << tagcell, registry, held, clock, others >>

(* ------------------------ callers and readers -------------------------- *)
\* the objects a caller can construct: an on-demand view goes through its
\* constructor, every other kind is as its constructor leaves it
Construct(kind, name, mode, id) ==
    IF kind = OnDemandKind
    THEN OnDemandFeatureView__init__(
             [name |-> name, description |-> 0, tags |-> id, mode |-> mode]).value
    ELSE NewObject(kind, name, "", id)

KindOrder ==
    << EntityKind, DataSourceKind, FeatureServiceKind, BatchKind, StreamKind,
       OnDemandKind, RequestKind, SavedDatasetKind >>
KindIx(kind) == CHOOSE i \in 1..Len(KindOrder) : KindOrder[i] = kind

\* the heaps of MaxObjs constructed objects over the given kinds, names and
\* modes; objects are interchangeable, so one order of construction is kept
Heaps(kinds, names, modes) ==
    LET Shapes == { sh \in [kind : kinds, name : names, mode : modes] :
                      sh.kind # OnDemandKind =>
                          sh.mode = (CHOOSE m \in modes : TRUE) }
        Le(x, y) == \/ KindIx(x.kind) < KindIx(y.kind)
                    \/ x.kind = y.kind /\ x.mode = y.mode
                    \/ x.kind = y.kind /\ x.mode # y.mode
                         /\ x.mode = (CHOOSE m \in { x.mode, y.mode } : TRUE)
    IN { [i \in 1..MaxObjs |-> Construct(sh[i].kind, sh[i].name, sh[i].mode, i)] :
           sh \in { f \in [1..MaxObjs -> Shapes] :
                      \A i \in 1..(MaxObjs - 1) : Le(f[i], f[i + 1]) } }

\* time passes
Tick ==
    /\ clock < MaxTime
    /\ clock' = clock + 1
    /\ last' = NoCall
    /\ UNCHANGED << heap, tagcell, logcell, registry, held, others >>

\* the caller changes an object it constructed: rebinds a field, adds a tag,
\* or appends an interval to the object's materialization log
MutateOwn(obj, what, t, iv) ==
    /\ last' = NoCall
    /\ CASE what = "description" ->
              /\ heap[obj].description = 0
              /\ heap' = [heap EXCEPT ![obj].description = 1]
              /\ UNCHANGED << tagcell, logcell >>
         [] what = "tags" ->
              /\ t \notin tagcell[heap[obj].tags]
              /\ tagcell' = [tagcell EXCEPT ![heap[obj].tags] = @ \cup {t}]
              /\ UNCHANGED << heap, logcell >>
         [] what = "materialization_intervals" ->
              /\ heap[obj].kind \in { BatchKind, StreamKind }
              /\ Len(logcell[heap[obj].materialization_intervals]) < MaxLog
              /\ logcell' = [logcell EXCEPT
                               ![heap[obj].materialization_intervals] = Append(@, iv)]
              /\ UNCHANGED << heap, tagcell >>
    /\ UNCHANGED << registry, held, clock, others >>

\* a reader changes the i-th object that reads have returned
MutateCopy(i, what, t, iv) ==
    /\ i \in 1..Len(held)
    /\ last' = NoCall
    /\ CASE what = "description" ->
              /\ held[i].description = 0
              /\ held' = [held EXCEPT ![i].description = 1]
              /\ UNCHANGED << tagcell, logcell >>
         [] what = "tags" ->
              /\ t \notin tagcell[held[i].tags]
              /\ tagcell' = [tagcell EXCEPT ![held[i].tags] = @ \cup {t}]
              /\ UNCHANGED << held, logcell >>
         [] what = "materialization_intervals" ->
              /\ held[i].kind \in { BatchKind, StreamKind }
              /\ Len(logcell[held[i].materialization_intervals]) < MaxLog
              /\ logcell' = [logcell EXCEPT
                               ![held[i].materialization_intervals] = Append(@, iv)]
              /\ UNCHANGED << held, tagcell >>
    /\ UNCHANGED << heap, registry, clock, others >>

Fields == { "description", "tags", "materialization_intervals" }

(* ------------- MySQLRegistryStore (mysql_registry_store.py) ------------ *)
\* a registry proto, as the set of the names it holds, and its bytes
Protos == SUBSET Names
EmptyProto == {}
NameOrder == << <<"a">>, <<"b">> >>
SerializeToString(proto) == SelectSeq(NameOrder, LAMBDA n : n \in proto)
FromString(bytes) == { bytes[i] : i \in DOMAIN bytes }

\* the table: whether it exists, and its rows, one per version, oldest first
NoTable == [ exists |-> FALSE, rows |-> << >> ]
Tables ==
    { NoTable } \cup
    { [ exists |-> TRUE, rows |-> r ] :
        r \in UNION { [1..n -> { SerializeToString(R) : R \in Protos }] : n \in 0..MaxRows } }

NotWritten == [ set |-> FALSE, proto |-> EmptyProto ]
StoreCall(fn, status, value) == [ fn |-> fn, status |-> status, value |-> value ]
NoStoreCall == StoreCall("none", "ok", EmptyProto)

\* the attributes MySQLRegistryStore.__init__ sets
StoreAttrs == { "db_config", "table_name", "cache_ttl_seconds" }

\* the subclasses of pymysql.err.DatabaseError the server or the driver raises
DatabaseErrors == { "OperationalError", "ProgrammingError" }

\* pymysql.connect
connect == IF db_up THEN [status |-> "ok"] ELSE [status |-> "OperationalError"]

\* _get_conn that takes the argument its callers pass and connects each time
_get_conn_as_called(args) == connect

\* _get_conn(self) called with args after self
_get_conn(args) ==
    IF Len(args) # 0 THEN [status |-> "TypeError"]
    ELSE IF "_conn" \notin StoreAttrs THEN [status |-> "AttributeError"]
    ELSE connect

\* cur.execute of the SELECT, and cur.fetchone
select_latest ==
    IF ~db_up THEN [status |-> "OperationalError"]
    ELSE IF ~table.exists THEN [status |-> "ProgrammingError"]
    ELSE IF table.rows = << >> THEN [status |-> "ok", row |-> << >>]
    ELSE [status |-> "ok", row |-> << table.rows[Len(table.rows)] >>]

get_registry_proto ==
    LET conn == _get_conn(<< "db_config" >>)
        res == IF conn.status # "ok" THEN conn ELSE select_latest
    IN IF res.status = "ok"
       THEN IF res.row # << >>
            THEN [status |-> "ok", value |-> FromString(res.row[1])]
            ELSE [status |-> "ok", value |-> EmptyProto]
       ELSE IF res.status \in DatabaseErrors
       THEN [status |-> "ok", value |-> EmptyProto]
       ELSE [status |-> res.status, value |-> EmptyProto]

\* a caller reads the catalog from the store
GetRegistryProto ==
    /\ call' = StoreCall("get_registry_proto", get_registry_proto.status,
                         get_registry_proto.value)
    /\ UNCHANGED << db_up, table, written >>
    /\ UNCHANGED << registryvars, enginevars, racevars >>

\* the body of update_registry_proto is pass
update_registry_proto(registry_proto) ==
    /\ call' = StoreCall("update_registry_proto", "ok", EmptyProto)
    /\ written' = [ set |-> TRUE, proto |-> registry_proto ]
    /\ UNCHANGED << db_up, table >>
    /\ UNCHANGED << registryvars, enginevars, racevars >>

teardown ==
    LET conn == _get_conn(<< "db_config" >>)
        res == IF conn.status # "ok" THEN conn
               ELSE IF ~db_up THEN [status |-> "OperationalError"]
               ELSE [status |-> "ok"]
    IN /\ call' = StoreCall("teardown", res.status, EmptyProto)
       /\ IF res.status = "ok"
          THEN table' = NoTable /\ written' = NotWritten
          ELSE UNCHANGED << table, written >>
       /\ UNCHANGED db_up
       /\ UNCHANGED << registryvars, enginevars, racevars >>

\* the server goes away or comes back
BackendChanges ==
    /\ db_up' = ~db_up
    /\ call' = NoStoreCall
    /\ UNCHANGED << table, written >>
    /\ UNCHANGED << registryvars, enginevars, racevars >>

\* no MySQL store is in use
NoStore ==
    /\ db_up = TRUE
    /\ table = NoTable
    /\ written = NotWritten
    /\ call = NoStoreCall

(* ------ OnDemandFeatureView transformations (on_demand_feature_view.py) - *)
\* f"{a}__{b}"
Join(a, b) == a \o << "__" >> \o b

\* a user transformation that adds up the inputs it reads and reports the
\* sum as each of its outputs, under the short name, the projected name or
\* both, with or without the input it was given
Inputs == { << "f" >>, Join(<< "V" >>, << "f" >>), << "r" >> }
Udfs == [ reads : (SUBSET Inputs) \ { {} }, style : { "short", "long", "both" },
          passthrough : BOOLEAN, outputs : { << << "o" >> >> } ]

\* the definitions: one source projection V with feature f, a request source
\* with field r, one declared output o
Definitions ==
    { [ name |-> << "D" >>,
        projection |-> [ name_to_use |-> << "D" >> ],
        source_feature_view_projections |->
            << [ name |-> << "V" >>, features |-> << << "f" >> >> ] >>,
        source_request_sources |-> << << "r" >> >>,
        features |-> << << "o" >> >>,
        udf |-> u ] : u \in Udfs }

Values == { 0, 1 }

\* the input batches: columns of equal length, a DataFrame or a dict of lists
ColumnOrder == << << "f" >>, Join(<< "V" >>, << "f" >>), << "r" >> >>
Batches ==
    { [ i \in 1..Len(nc[1]) |-> [ k |-> nc[1][i], v |-> nc[2][i] ] ] :
        nc \in
          UNION { { << SelectSeq(ColumnOrder, LAMBDA c : c \in present), cs >> :
                      cs \in [1..Cardinality(present) -> [1..n -> Values]] } :
                    present \in SUBSET Inputs, n \in 0..MaxBatch } }

RECURSIVE SumOver(_, _)
SumOver(S, val) ==
    IF S = {} THEN 0
    ELSE LET x == CHOOSE y \in S : TRUE
         IN val[x] + SumOver(S \ { x }, val)

\* the (projection, feature) pairs in the order of the two nested loops
SourceFeatures(self) ==
    LET ps == self.source_feature_view_projections
        ofView(p) == [ j \in 1..Len(p.features) |->
                         [ view |-> p.name, feature |-> p.features[j] ] ]
        RECURSIVE from(_)
        from(i) == IF i > Len(ps) THEN << >> ELSE ofView(ps[i]) \o from(i + 1)
    IN from(1)

_get_projected_feature_name(self, feature) ==
    Join(self.projection.name_to_use, feature)

\* the columns the transformation returns
OutputColumns(self, val) ==
    LET cols(o) ==
          LET short == [ k |-> o, v |-> val ]
              long == [ k |-> _get_projected_feature_name(self, o), v |-> val ]
          IN CASE self.udf.style = "short" -> << short >>
               [] self.udf.style = "long" -> << long >>
               [] self.udf.style = "both" -> << short, long >>
        RECURSIVE from(_)
        from(i) == IF i > Len(self.udf.outputs) THEN << >>
                   ELSE cols(self.udf.outputs[i]) \o from(i + 1)
    IN from(1)

\* DataFrame.to_dict and DataFrame.from_dict: a dict holds one entry per
\* column name, the last column of a name
RECURSIVE to_dict_from(_, _, _)
to_dict_from(df, i, d) ==
    IF i > Len(df) THEN d ELSE to_dict_from(df, i + 1, Put(d, df[i].k, df[i].v))
to_dict(df) == to_dict_from(df, 1, << >>)
from_dict(d) == [ i \in 1..Len(d) |-> [ k |-> d[i].k, v |-> d[i].v ] ]

NumRows(df) == IF df = << >> THEN 0 ELSE Len(df[1].v)

\* self.udf.__call__(df): one call for the whole frame
udf_df(self, df) ==
    IF \E n \in self.udf.reads : ~Has(df, n)
    THEN [ status |-> "KeyError", by |-> "udf", value |-> << >> ]
    ELSE LET val == [ i \in 1..NumRows(df) |->
                        SumOver(self.udf.reads, [ x \in self.udf.reads |-> Lookup(df, x)[i] ]) ]
         IN [ status |-> "ok", by |-> "udf",
              value |-> (IF self.udf.passthrough THEN df ELSE << >>)
                          \o OutputColumns(self, val) ]

\* self.udf.__call__(row): one call per row
udf_row(self, row) ==
    IF \E n \in self.udf.reads : ~Has(row, n)
    THEN [ status |-> "KeyError", by |-> "udf", value |-> << >> ]
    ELSE LET val == SumOver(self.udf.reads, [ x \in self.udf.reads |-> Lookup(row, x) ])
         IN [ status |-> "ok", by |-> "udf",
              value |-> to_dict((IF self.udf.passthrough THEN row ELSE << >>)
                                  \o OutputColumns(self, val)) ]

\* the first loop of _get_transformed_features_df, from pair i on
RECURSIVE df_both_names(_, _, _)
df_both_names(pairs, i, dict_with_features) ==
    IF i > Len(pairs) THEN dict_with_features
    ELSE LET full_feature_ref == Join(pairs[i].view, pairs[i].feature)
             name == pairs[i].feature
         IN IF Has(dict_with_features, full_feature_ref)
            THEN df_both_names(pairs, i + 1,
                     Put(dict_with_features, name,
                         Lookup(dict_with_features, full_feature_ref)))
            ELSE IF Has(dict_with_features, name)
            THEN df_both_names(pairs, i + 1,
                     Put(dict_with_features, full_feature_ref,
                         Lookup(dict_with_features, name)))
            ELSE df_both_names(pairs, i + 1, dict_with_features)

\* the loop that fills rename_columns, from feature i on
RECURSIVE df_rename_columns(_, _, _, _, _)
df_rename_columns(self, out, full_feature_names, i, rename_columns) ==
    IF i > Len(self.features) THEN rename_columns
    ELSE LET short_name == self.features[i]
             long_name == _get_projected_feature_name(self, self.features[i])
         IN IF Has(out, short_name) /\ full_feature_names
            THEN df_rename_columns(self, out, full_feature_names, i + 1,
                     Put(rename_columns, short_name, long_name))
            ELSE IF ~full_feature_names
            THEN df_rename_columns(self, out, full_feature_names, i + 1,
                     Put(rename_columns, long_name, short_name))
            ELSE df_rename_columns(self, out, full_feature_names, i + 1,
                     rename_columns)

\* step 1 of the tabular engine: the frame handed to the transformation, with
\* every source feature of the input under both of its names
df_with_both_names(self, df_with_features) ==
    from_dict(df_both_names(SourceFeatures(self), 1, to_dict(df_with_features)))

\* The result of DataFrame.drop (362) is a new frame that is discarded, so the
\* frame returned is the transformation's output with its columns renamed.
_get_transformed_features_df(self, df_with_features, full_feature_names) ==
    LET handed == df_with_both_names(self, df_with_features)
        out == udf_df(self, handed)
    IN IF out.status # "ok"
       THEN [ status |-> out.status, by |-> out.by, value |-> out.value,
              calls |-> << handed >> ]
       ELSE LET rename_columns ==
                    df_rename_columns(self, out.value, full_feature_names, 1, << >>)
                new_columns ==
                    [ i \in 1..Len(out.value) |->
                        [ k |-> IF Has(rename_columns, out.value[i].k)
                                THEN Lookup(rename_columns, out.value[i].k)
                                ELSE out.value[i].k,
                          v |-> out.value[i].v ] ]
            IN [ status |-> "ok", by |-> "engine", value |-> new_columns,
                 calls |-> << handed >> ]

\* the loop that fills name_map, from pair i on
RECURSIVE dict_name_map(_, _, _, _)
dict_name_map(pairs, i, feature_dict, name_map) ==
    IF i > Len(pairs) THEN [ status |-> "ok", value |-> name_map ]
    ELSE LET full_feature_ref == Join(pairs[i].view, pairs[i].feature)
             name == pairs[i].feature
         IN IF Has(feature_dict, full_feature_ref)
            THEN dict_name_map(pairs, i + 1, feature_dict,
                     Put(name_map, full_feature_ref, name))
            ELSE IF Has(feature_dict, name)
            THEN IF Has(name_map, full_feature_ref)
                 THEN dict_name_map(pairs, i + 1, feature_dict,
                          Put(name_map, name, Lookup(name_map, full_feature_ref)))
                 ELSE [ status |-> "KeyError", value |-> << >> ]
            ELSE dict_name_map(pairs, i + 1, feature_dict, name_map)

\* zip(*feature_dict.values()): as many rows as the shortest column has
ZipLen(feature_dict) ==
    IF feature_dict = << >> THEN 0
    ELSE CHOOSE n \in 0..(MaxBatch + 1) :
           /\ \A j \in 1..Len(feature_dict) : n <= Len(feature_dict[j].v)
           /\ \E j \in 1..Len(feature_dict) : n = Len(feature_dict[j].v)

\* the row the two dict comprehensions build for position i
dict_row(feature_dict, name_map, i) ==
    IF \E j \in 1..Len(feature_dict) : ~Has(name_map, feature_dict[j].k)
    THEN [ status |-> "KeyError", value |-> << >> ]
    ELSE LET plain == [ j \in 1..Len(feature_dict) |->
                          [ k |-> feature_dict[j].k, v |-> feature_dict[j].v[i] ] ]
             mapped == [ j \in 1..Len(feature_dict) |->
                           [ k |-> Lookup(name_map, feature_dict[j].k),
                             v |-> feature_dict[j].v[i] ] ]
         IN [ status |-> "ok", value |-> to_dict(plain \o mapped) ]

\* what one row contributes to the output: the transformation's value under
\* the requested name, the value under the other name being read first
dict_row_output(self, row, full_feature_names) ==
    LET row_output == udf_row(self, row)
        correct(o) == IF full_feature_names
                      THEN _get_projected_feature_name(self, o) ELSE o
        alias(o) == IF full_feature_names
                    THEN o ELSE _get_projected_feature_name(self, o)
        fs == self.features
    IN IF row_output.status # "ok" THEN row_output
       ELSE IF \E j \in 1..Len(fs) : ~Has(row_output.value, alias(fs[j]))
       THEN [ status |-> "KeyError", by |-> "engine", value |-> << >> ]
       ELSE [ status |-> "ok", by |-> "engine",
              value |-> to_dict([ j \in 1..Len(fs) |->
                          [ k |-> correct(fs[j]),
                            v |-> IF Has(row_output.value, correct(fs[j]))
                                  THEN Lookup(row_output.value, correct(fs[j]))
                                  ELSE Lookup(row_output.value, alias(fs[j])) ] ]) ]

\* step 1 of the row engine: name_map, then the list of rows, each row with
\* the keys of the batch and the keys name_map gives them
dict_rows(self, feature_dict) ==
    LET name_map == dict_name_map(SourceFeatures(self), 1, feature_dict, << >>)
        n == ZipLen(feature_dict)
        rows == [ i \in 1..n |-> dict_row(feature_dict, name_map.value, i) ]
    IN IF name_map.status # "ok"
       THEN [ status |-> name_map.status, value |-> << >> ]
       ELSE IF \E i \in 1..n : rows[i].status # "ok"
       THEN [ status |-> "KeyError", value |-> << >> ]
       ELSE [ status |-> "ok", value |-> [ i \in 1..n |-> rows[i].value ] ]

_get_transformed_features_dict(self, feature_dict, full_feature_names) ==
    LET rows == dict_rows(self, feature_dict)
        n == Len(rows.value)
        outs == [ i \in 1..n |->
                    dict_row_output(self, rows.value[i], full_feature_names) ]
        correct(o) == IF full_feature_names
                      THEN _get_projected_feature_name(self, o) ELSE o
        names == to_dict([ j \in 1..Len(self.features) |->
                             [ k |-> correct(self.features[j]), v |-> << >> ] ])
    IN IF rows.status # "ok"
       THEN [ status |-> rows.status, by |-> "engine", value |-> << >>,
              calls |-> << >> ]
       ELSE IF \E i \in 1..n : outs[i].status # "ok"
       THEN LET i == CHOOSE j \in 1..n :
                       /\ outs[j].status # "ok"
                       /\ \A h \in 1..(j - 1) : outs[h].status = "ok"
            IN [ status |-> outs[i].status, by |-> outs[i].by,
                 value |-> outs[i].value,
                 calls |-> SubSeq(rows.value, 1, i) ]
       ELSE [ status |-> "ok", by |-> "engine", calls |-> rows.value,
              value |-> [ j \in 1..Len(names) |->
                            [ k |-> names[j].k,
                              v |-> [ i \in 1..n |->
                                        Lookup(outs[i].value, names[j].k) ] ] ] ]

\* the engine of a mode
Engine(mode, self, features, full_feature_names) ==
    IF mode = "python"
    THEN _get_transformed_features_dict(self, features, full_feature_names)
    ELSE _get_transformed_features_df(self, features, full_feature_names)

\* what the caller and the transformation saw of an execution: how it ended,
\* and the inputs handed to the transformation, one per invocation, in order
Executed(mode, full_feature_names, res) ==
    [ mode |-> mode, full_feature_names |-> full_feature_names,
      status |-> res.status, by |-> res.by, value |-> res.value,
      calls |-> res.calls ]
NotExecuted ==
    Executed("none", FALSE, [ status |-> "ok", by |-> "engine", value |-> << >>,
                              calls |-> << >> ])

\* an execution whose tabular step 1 writes the missing names into the
\* caller's frame instead of into a dict made from it
Transform_in_place(mode, full_feature_names) ==
    /\ result' = Executed(mode, full_feature_names,
                          Engine(mode, definition, batch, full_feature_names))
    /\ batch' = IF mode = "pandas" THEN df_with_both_names(definition, batch)
                ELSE batch
    /\ UNCHANGED definition
    /\ UNCHANGED << registryvars, storevars, racevars >>

\* a caller executes the definition on the batch in one of the two modes
Transform(mode, full_feature_names) ==
    /\ result' = Executed(mode, full_feature_names,
                          Engine(mode, definition, batch, full_feature_names))
    /\ UNCHANGED << definition, batch >>
    /\ UNCHANGED << registryvars, storevars, racevars >>

\* no transformation is being executed
NoEngine ==
    /\ definition = CHOOSE d \in Definitions : TRUE
    /\ batch = << >>
    /\ result = NotExecuted

(* ------------- infer_features (on_demand_feature_view.py 431-492) ----- *)
\* The statements of infer_features are the text of a string literal
\* (438-491); the body that runs is pass. The view is returned as it was and
\* the transformation is not called.
infer_features(self) ==
    [ status |-> "ok", by |-> "engine", value |-> << >>, calls |-> << >>,
      self |-> self ]

\* definition.infer_features()
InferFeatures ==
    /\ LET res == infer_features(definition)
       IN /\ definition' = res.self
          /\ result' = Executed("infer", FALSE, res)
    /\ UNCHANGED batch
    /\ UNCHANGED << registryvars, storevars, racevars >>

\* definitions whose transformation returns one column or two, declared
\* with the schema of what it returns or with no schema
InferDefinitions ==
    { [ d EXCEPT !.features = fs, !.udf.outputs = outs ] :
        d \in Definitions,
        fs \in { << >>, << << "o" >> >>, << << "o" >>, << "p" >> >> },
        outs \in { << << "o" >> >>, << << "o" >>, << "p" >> >> } }

(* ------- OnDemandFeatureView.__eq__ (on_demand_feature_view.py) -------- *)
\* dict == dict: the same keys with equal values, whatever the insertion order
dict_eq(a, b) == { a[i] : i \in 1..Len(a) } = { b[i] : i \in 1..Len(b) }

\* BaseFeatureView.__eq__, the part of the comparison made by the base class:
\* the declared outputs are equal
BaseFeatureView__eq__(self, other) == self.features = other.features

OnDemandFeatureView__eq__(self, other) ==
    IF ~isinstance(other.kind, OnDemandKind)
    THEN [ status |-> "TypeError", value |-> FALSE ]
    ELSE IF ~BaseFeatureView__eq__(self, other)
    THEN [ status |-> "ok", value |-> FALSE ]
    ELSE IF \/ ~dict_eq(self.source_feature_view_projections,
                        other.source_feature_view_projections)
            \/ ~dict_eq(self.source_request_sources,
                        other.source_request_sources)
            \/ self.udf_string # other.udf_string
            \/ self.udf.co_code # other.udf.co_code
    THEN [ status |-> "ok", value |-> FALSE ]
    ELSE [ status |-> "ok", value |-> TRUE ]

\* the objects compared: on-demand views over one or two source projections,
\* given in either order, with or without a request source, with one or two
\* declared outputs, whose transformation is one of two texts and compiles to
\* one of two bytecodes; and a feature view, which is no on-demand view
ProjectionDicts ==
    { << [ k |-> "V", v |-> << "f" >> ] >>,
      << [ k |-> "V", v |-> << "f" >> ], [ k |-> "W", v |-> << "g" >> ] >>,
      << [ k |-> "W", v |-> << "g" >> ], [ k |-> "V", v |-> << "f" >> ] >> }
RequestDicts == { << >>, << [ k |-> "R", v |-> << "r" >> ] >> }
Comparables ==
    { [ kind |-> OnDemandKind, features |-> fs,
        source_feature_view_projections |-> ps, source_request_sources |-> rs,
        udf_string |-> text, udf |-> [ co_code |-> code ] ] :
        fs \in { << "o" >>, << "o", "p" >> }, ps \in ProjectionDicts,
        rs \in RequestDicts, text \in { "def t(x): return x", "def t(x):\n  return x" },
        code \in { "LOAD_FAST RETURN_VALUE", "LOAD_CONST RETURN_VALUE" } }
      \cup { [ kind |-> BatchKind ] }

EqCall(i, j, res) ==
    [ fn |-> "__eq__", status |-> res.status, value |-> res.value,
      self |-> i, other |-> j ]

\* heap[i] == heap[j]
Compare(i, j) ==
    /\ heap[i].kind = OnDemandKind
    /\ last' = EqCall(i, j, OnDemandFeatureView__eq__(heap[i], heap[j]))
    /\ UNCHANGED << heap, tagcell, logcell, registry, held, clock, others >>

(* ---- construction and dispatch (on_demand_feature_view.py 78-140, ----- *)
(* ---- 410-429, 508-563) ------------------------------------------------ *)
\* the mode strings a caller may pass
ModeStrings == Modes \cup { "spark", "" }

\* the call ended this way; construct and decorate say which name and mode
\* they were given, dispatch says which branch it took
DefCall(fn, status, name, mode, branch) ==
    [ fn |-> fn, status |-> status, name |-> name, mode |-> mode,
      branch |-> branch ]

\* the object a call returned, when it returned one, is one more object
Returned(res) == IF res.status = "ok" THEN Append(heap, res.value) ELSE heap

\* OnDemandFeatureView(name=name, mode=mode, schema=..., sources=..., udf=...)
NewOnDemandFeatureView(name, mode) ==
    /\ Len(heap) < MaxObjs
    /\ LET res == OnDemandFeatureView__init__(
                     [ name |-> name, description |-> 0,
                       tags |-> Len(heap) + 1, mode |-> mode ])
       IN /\ heap' = Returned(res)
          /\ last' = DefCall("OnDemandFeatureView", res.status, name, mode, "")
    /\ UNCHANGED << tagcell, logcell, registry, held, clock, others >>

\* on_demand_feature_view(schema=..., sources=..., mode=...)(user_function):
\* decorator builds the view from the function's name, sources, schema, udf,
\* description, tags, owner and udf_string; kwargs.mode, "pandas" when the
\* caller gave none (518), is not among them
on_demand_feature_view(kwargs, user_function) ==
    OnDemandFeatureView__init__(
        [ name |-> user_function.__name__, description |-> kwargs.description,
          tags |-> kwargs.tags ])

\* @on_demand_feature_view(...) over a function, mode "absent" standing for a
\* call that passes no mode
Decorate(name, mode) ==
    /\ Len(heap) < MaxObjs
    /\ LET given == IF mode = "absent" THEN "pandas" ELSE mode
           res == on_demand_feature_view(
                     [ description |-> 0, tags |-> Len(heap) + 1,
                       mode |-> given ],
                     [ __name__ |-> name ])
       IN /\ heap' = Returned(res)
          /\ last' = DefCall("on_demand_feature_view", res.status, name, mode, "")
    /\ UNCHANGED << tagcell, logcell, registry, held, clock, others >>

\* copy.copy of an existing view
CopyView(i) ==
    /\ i <= Len(heap)
    /\ Len(heap) < MaxObjs
    /\ LET res == copy_copy(heap[i])
       IN /\ heap' = Returned(res)
          /\ last' = DefCall("__copy__", res.status, heap[i].name, "", "")
    /\ UNCHANGED << tagcell, logcell, registry, held, clock, others >>

\* typing.cast(typ, val) returns val
cast(typ, val) == val

\* the objects Dict[str, List[Any]] and pd.DataFrame, which are no data
DictAnnotation == [ type |-> "typing.Dict" ]
DataFrameClass == [ type |-> "type" ]

\* an engine called through the class, whose methods check their arguments
\* against their annotations (44): an argument of another type is a TypeError
CheckedEngine(mode, self, features, full_feature_names) ==
    IF features.type # (IF mode = "python" THEN "dict" ELSE "DataFrame")
    THEN [ status |-> "TypeError", by |-> "engine", value |-> << >>,
           calls |-> << >> ]
    ELSE Engine(mode, self, features.data, full_feature_names)

get_transformed_features(self, features, full_feature_names) ==
    LET Raised(branch, status) ==
            [ branch |-> branch, status |-> status, by |-> "dispatch",
              value |-> << >>, calls |-> << >> ]
        Returned_(branch, res) ==
            [ branch |-> branch, status |-> res.status, by |-> res.by,
              value |-> res.value, calls |-> res.calls ]
    IN IF self.mode = "python"
       THEN IF features.type # "dict"
            THEN Raised("python", "AssertionError")
            ELSE Returned_("python",
                           CheckedEngine("python", self,
                               cast(features, DictAnnotation),
                               full_feature_names))
       ELSE IF self.mode = "pandas"
       THEN IF features.type # "DataFrame"
            THEN Raised("pandas", "AssertionError")
            ELSE Returned_("pandas",
                           CheckedEngine("pandas", self,
                               cast(features, DataFrameClass),
                               full_feature_names))
       ELSE Raised("invalid", "Exception")

GetTransformedFeatures(i, type, full_feature_names) ==
    /\ i <= Len(heap)
    /\ LET res == get_transformed_features(
                     heap[i], [ type |-> type, data |-> batch ],
                     full_feature_names)
       IN last' = DefCall("get_transformed_features", res.status,
                          heap[i].name, heap[i].mode, res.branch)
    /\ UNCHANGED << heap, tagcell, logcell, registry, held, clock, others >>

\* a caller hands a batch of the given type to a definition that carries its
\* transformation
Dispatch(type, full_feature_names) ==
    /\ result' = Executed(definition.mode, full_feature_names,
                          get_transformed_features(
                              definition, [ type |-> type, data |-> batch ],
                              full_feature_names))
    /\ UNCHANGED << definition, batch >>
    /\ UNCHANGED << registryvars, storevars, racevars >>

(* ------------- concurrent callers of apply (memory.py 101-110, --------- *)
(* ------------- 298-302) ------------------------------------------------ *)
\* no call of apply is in progress
NoCallers == callers = << >>

Callers == 1..MaxCallers
Idle == [ pc |-> "idle" ]
Checked(obj, attr, key) ==
    [ pc |-> "checked", obj |-> obj, attr |-> attr, key |-> key ]
Done(obj, attr, key, status) ==
    [ pc |-> "done", obj |-> obj, attr |-> attr, key |-> key, status |-> status ]

\* apply_entity up to its membership test (101-108), apply_feature_view up to
\* its own (298-300): the entity is stamped, the dict chosen, the key built
\* and looked up; a key that is found ends the call
apply_check(c, o, project) ==
    /\ callers[c].pc = "idle"
    /\ o <= Len(heap)
    /\ LET kind == heap[o].kind
           now == clock
           stamped == [heap[o] EXCEPT
                         !.created_timestamp = IF @ = NoTime THEN now ELSE @,
                         !.last_updated_timestamp = now]
           reg == IF kind = EntityKind
                  THEN [status |-> "ok", value |-> "entities"]
                  ELSE _fv_registry(kind)
           key == project_key(project, heap[o].name)
       IN /\ heap' = IF kind = EntityKind THEN [heap EXCEPT ![o] = stamped]
                     ELSE heap
          /\ IF reg.status # "ok"
             THEN /\ callers' = [callers EXCEPT
                                   ![c] = Done(o, "", key, reg.status)]
                  /\ last' = Call("apply", reg.status)
             ELSE IF Has(registry[reg.value], key)
             THEN /\ callers' = [callers EXCEPT
                                   ![c] = Done(o, reg.value, key, "Duplicate")]
                  /\ last' = Call("apply", "Duplicate")
             ELSE /\ callers' = [callers EXCEPT
                                   ![c] = Checked(o, reg.value, key)]
                  /\ UNCHANGED last
    /\ UNCHANGED << tagcell, logcell, registry, held, clock, storevars,
                    enginevars >>

\* the insertion that keeps an entry that is there already
apply_insert_setdefault(c) ==
    /\ callers[c].pc = "checked"
    /\ LET at == callers[c]
       IN /\ registry' = IF Has(registry[at.attr], at.key) THEN registry
                         ELSE [registry EXCEPT ![at.attr] = Put(@, at.key, at.obj)]
          /\ callers' = [callers EXCEPT ![c] = Done(at.obj, at.attr, at.key, "ok")]
          /\ last' = Call("apply", "ok")
    /\ UNCHANGED << heap, tagcell, logcell, held, clock, storevars,
                    enginevars >>

\* self.entities[key] = entity (110), registry[key] = feature_view (302)
apply_insert(c) ==
    /\ callers[c].pc = "checked"
    /\ LET at == callers[c]
       IN /\ registry' = [registry EXCEPT ![at.attr] = Put(@, at.key, at.obj)]
          /\ callers' = [callers EXCEPT ![c] = Done(at.obj, at.attr, at.key, "ok")]
          /\ last' = Call("apply", "ok")
    /\ UNCHANGED << heap, tagcell, logcell, held, clock, storevars,
                    enginevars >>

(* --------------------------- specification ----------------------------- *)
\* the registry as MemoryRegistry.__init__ leaves it, and the objects the
\* caller has constructed and not yet applied
InitWith(kinds, names, modes) ==
    /\ NoCallers
    /\ heap \in Heaps(kinds, names, modes)
    /\ tagcell = [i \in 1..MaxObjs |-> {}]
    /\ logcell = [i \in 1..MaxObjs |-> << >>]
    /\ registry = EmptyRegistry
    /\ held = << >>
    /\ clock = 1
    /\ last = NoCall
    /\ NoStore
    /\ NoEngine

Applies ==
    \/ \E o \in ObjIds, project \in Projects : apply_entity(o, project)
    \/ \E o \in ObjIds, project \in Projects : apply_data_source(o, project)
    \/ \E o \in ObjIds, project \in Projects : apply_feature_service(o, project)
    \/ \E o \in ObjIds, project \in Projects : apply_feature_view(o, project)

Deletes ==
    \/ \E name \in Names, project \in Projects : delete_entity(name, project)
    \/ \E name \in Names, project \in Projects : delete_data_source(name, project)
    \/ \E name \in Names, project \in Projects : delete_feature_service(name, project)
    \/ \E name \in Names, project \in Projects : delete_feature_view(name, project)

Reads(kinds, names, projects) ==
    \/ \E kind \in kinds, name \in names, project \in projects :
         GetCall(kind, name, project)
    \/ \E kind \in kinds, project \in projects : ListCall(kind, project)

\* every kind of object, applied and deleted over time; get and list change
\* nothing and are read off each state
Init == InitWith(Kinds, Names, {"pandas"})

Next ==
    \/ Tick
    \/ Applies
    \/ Deletes

Spec == Init /\ [][Next]_vars

\* the feature views of one name and their materialization logs, over time
ViewNames == { <<"a">> }
InitViews == InitWith(ViewKinds, ViewNames, {"pandas"})

NextViews ==
    \/ Tick
    \/ \E o \in ObjIds, project \in Projects : apply_feature_view(o, project)
    \/ \E name \in ViewNames, project \in Projects : delete_feature_view(name, project)
    \/ \E o \in ObjIds, project \in Projects, iv \in Intervals :
         apply_materialization(o, project, iv[1], iv[2])

SpecViews == InitViews /\ [][NextViews]_vars

\* saved datasets, applied and deleted over time
InitSaved == InitWith({ SavedDatasetKind }, Names, {"pandas"})

NextSaved ==
    \/ Tick
    \/ \E o \in ObjIds, project \in Projects : apply_saved_dataset(o, project)
    \/ \E name \in Names, project \in Projects : delete_saved_dataset(name, project)

SpecSaved == InitSaved /\ [][NextSaved]_vars

\* a MySQL store over a table that other writers may have filled, and a
\* server that comes and goes
InitStore ==
    /\ NoCallers
    /\ heap = << >>
    /\ tagcell = << >>
    /\ logcell = << >>
    /\ registry = EmptyRegistry
    /\ held = << >>
    /\ clock = 1
    /\ last = NoCall
    /\ db_up \in BOOLEAN
    /\ table \in Tables
    /\ written = NotWritten
    /\ call = NoStoreCall
    /\ NoEngine

NextStore ==
    \/ GetRegistryProto
    \/ \E registry_proto \in Protos : update_registry_proto(registry_proto)
    \/ teardown
    \/ BackendChanges

SpecStore == InitStore /\ [][NextStore]_vars

\* every definition on every batch, executed in both modes
InitEngine ==
    /\ NoCallers
    /\ heap = << >>
    /\ tagcell = << >>
    /\ logcell = << >>
    /\ registry = EmptyRegistry
    /\ held = << >>
    /\ clock = 1
    /\ last = NoCall
    /\ NoStore
    /\ definition \in Definitions
    /\ batch \in Batches
    /\ result = NotExecuted

NextEngine ==
    \E mode \in Modes, full_feature_names \in BOOLEAN :
        Transform(mode, full_feature_names)

SpecEngine == InitEngine /\ [][NextEngine]_vars

\* callers and readers that change the objects they hold
\* two objects, the first an on-demand view, compared with ==
InitEq ==
    /\ NoCallers
    /\ heap \in { h \in [1..MaxObjs -> Comparables] : h[1].kind = OnDemandKind }
    /\ tagcell = << >>
    /\ logcell = << >>
    /\ registry = EmptyRegistry
    /\ held = << >>
    /\ clock = 1
    /\ last = NoCall
    /\ NoStore
    /\ NoEngine

NextEq == \E i, j \in 1..MaxObjs : Compare(i, j)

SpecEq == InitEq /\ [][NextEq]_vars

\* callers that construct on-demand views, with the constructor or with the
\* decorator, copy them and execute them
InitDeclare ==
    /\ NoCallers
    /\ heap = << >>
    /\ tagcell = [i \in 1..MaxObjs |-> {}]
    /\ logcell = [i \in 1..MaxObjs |-> << >>]
    /\ registry = EmptyRegistry
    /\ held = << >>
    /\ clock = 1
    /\ last = NoCall
    /\ NoStore
    /\ NoEngine

NextDeclare ==
    \/ \E name \in Names, mode \in ModeStrings : NewOnDemandFeatureView(name, mode)
    \/ \E name \in Names, mode \in ModeStrings \cup { "absent" } :
          Decorate(name, mode)
    \/ \E i \in 1..MaxObjs : CopyView(i)
    \/ \E i \in 1..MaxObjs, type \in { "dict", "DataFrame" },
          full_feature_names \in BOOLEAN :
            GetTransformedFeatures(i, type, full_feature_names)

SpecDeclare == InitDeclare /\ [][NextDeclare]_vars

\* schema inference on definitions declared with and without a schema
InitInfer ==
    /\ NoCallers
    /\ heap = << >>
    /\ tagcell = << >>
    /\ logcell = << >>
    /\ registry = EmptyRegistry
    /\ held = << >>
    /\ clock = 1
    /\ last = NoCall
    /\ NoStore
    /\ definition \in InferDefinitions
    /\ batch = << >>
    /\ result = NotExecuted

NextInfer == InferFeatures

SpecInfer == InitInfer /\ [][NextInfer]_vars

\* callers that apply entities and batch views of one name at the same time,
\* the steps of their calls interleaved in any order
RaceNames == { << "a" >> }
InitRace ==
    /\ heap \in Heaps({ EntityKind, BatchKind }, RaceNames, { "pandas" })
    /\ tagcell = [i \in 1..MaxObjs |-> {}]
    /\ logcell = [i \in 1..MaxObjs |-> << >>]
    /\ registry = EmptyRegistry
    /\ held = << >>
    /\ clock = 1
    /\ last = NoCall
    /\ NoStore
    /\ NoEngine
    /\ callers = [c \in Callers |-> Idle]

NextRace ==
    \/ \E c \in Callers, o \in 1..MaxObjs, project \in Projects :
          apply_check(c, o, project)
    \/ \E c \in Callers : apply_insert(c)

SpecRace == InitRace /\ [][NextRace]_vars

\* feature views applied and deleted under projects and names that may hold
\* the separator of the storage key
ColonKinds == { BatchKind, RequestKind }
ColonProjects == { << "p" >>, << "q" >>, << "p", ":", "q" >> }
ColonNames == { << "a" >>, << "q", ":", "a" >> }
InitColon == InitWith(ColonKinds, ColonNames, {"pandas"})

NextColon ==
    \/ \E o \in ObjIds, project \in ColonProjects :
          apply_feature_view(o, project)
    \/ \E name \in ColonNames, project \in ColonProjects :
          delete_feature_view(name, project)

SpecColon == InitColon /\ [][NextColon]_vars

\* every definition on every dict of columns, the columns of any lengths,
\* executed in row mode
RaggedBatches ==
    { [ i \in 1..Len(nc[1]) |-> [ k |-> nc[1][i], v |-> nc[2][i] ] ] :
        nc \in
          UNION { { << SelectSeq(ColumnOrder, LAMBDA c : c \in present), cs >> :
                      cs \in [1..Cardinality(present) ->
                                UNION { [1..n -> Values] : n \in 0..MaxBatch }] } :
                    present \in SUBSET Inputs } }

InitRagged ==
    /\ NoCallers
    /\ heap = << >>
    /\ tagcell = << >>
    /\ logcell = << >>
    /\ registry = EmptyRegistry
    /\ held = << >>
    /\ clock = 1
    /\ last = NoCall
    /\ NoStore
    /\ definition \in Definitions
    /\ batch \in RaggedBatches
    /\ result = NotExecuted

NextRagged ==
    \E full_feature_names \in BOOLEAN : Transform("python", full_feature_names)

SpecRagged == InitRagged /\ [][NextRagged]_vars

\* definitions of either mode, handed batches through get_transformed_features
ModeDefinitions ==
    { [ f \in DOMAIN d \cup { "mode" } |-> IF f = "mode" THEN mode ELSE d[f] ] :
        d \in Definitions, mode \in Modes }

InitDispatch ==
    /\ NoCallers
    /\ heap = << >>
    /\ tagcell = << >>
    /\ logcell = << >>
    /\ registry = EmptyRegistry
    /\ held = << >>
    /\ clock = 1
    /\ last = NoCall
    /\ NoStore
    /\ definition \in ModeDefinitions
    /\ batch \in Batches
    /\ result = NotExecuted

NextDispatch ==
    \E type \in { "dict", "DataFrame" }, full_feature_names \in BOOLEAN :
        Dispatch(type, full_feature_names)

SpecDispatch == InitDispatch /\ [][NextDispatch]_vars

AliasKinds == { EntityKind, BatchKind }
AliasNames == { <<"a">> }
AliasProjects == { <<"p">> }
InitAlias == InitWith(AliasKinds, AliasNames, {"pandas"})

NextAlias ==
    \/ \E o \in ObjIds, project \in AliasProjects : apply_entity(o, project)
    \/ \E o \in ObjIds, project \in AliasProjects : apply_feature_view(o, project)
    \/ Reads(AliasKinds, AliasNames, AliasProjects)
    \/ \E o \in ObjIds, what \in Fields, t \in TagKeys, iv \in Intervals :
         MutateOwn(o, what, t, iv)
    \/ \E i \in 1..MaxReads, what \in Fields, t \in TagKeys, iv \in Intervals :
         MutateCopy(i, what, t, iv)

SpecAlias == InitAlias /\ [][NextAlias]_vars

(* ------------------------ what the claims speak of --------------------- *)
\* an object with its tags and its materialization log read through
Value(obj) ==
    [ kind |-> obj.kind, name |-> obj.name, description |-> obj.description,
      mode |-> obj.mode, tags |-> tagcell[obj.tags],
      materialization_intervals |-> logcell[obj.materialization_intervals],
      created_timestamp |-> obj.created_timestamp,
      last_updated_timestamp |-> obj.last_updated_timestamp ]

\* equal in every field but the two timestamps
SameButTimestamps(a, b) ==
    [Value(a) EXCEPT !.created_timestamp = NoTime, !.last_updated_timestamp = NoTime]
      = [Value(b) EXCEPT !.created_timestamp = NoTime, !.last_updated_timestamp = NoTime]

\* what a caller sees of a read: how it ended and the values returned
GetSeen(kind, name, project) ==
    LET r == get(kind, name, project)
    IN IF r.status = "ok" THEN << "ok", Value(r.value) >> ELSE << r.status >>

ListSeen(kind, project) ==
    LET r == list(kind, project)
    IN IF r.status = "ok"
       THEN << "ok", [i \in 1..Len(r.value) |-> Value(r.value[i])] >>
       ELSE << r.status >>

\* apply of an object of its own kind, by the method for that kind
ApplyOf(o, project) ==
    \/ apply_entity(o, project)
    \/ apply_data_source(o, project)
    \/ apply_feature_service(o, project)
    \/ heap[o].kind \in ViewKinds /\ apply_feature_view(o, project)

\* delete of a name of an entity, data source or feature service
PlainKinds == { EntityKind, DataSourceKind, FeatureServiceKind }
DeleteOf(kind, name, project) ==
    \/ kind = EntityKind /\ delete_entity(name, project)
    \/ kind = DataSourceKind /\ delete_data_source(name, project)
    \/ kind = FeatureServiceKind /\ delete_feature_service(name, project)

Stored(kind, name, project) ==
    Has(registry[RegistryOf(kind)], project_key(project, name))
StoredObj(kind, name, project) ==
    Lookup(registry[RegistryOf(kind)], project_key(project, name))

(* -------------------------------- claims ------------------------------- *)
\* C1: after apply(obj, P) succeeds, get(obj.name, P) succeeds and returns an
\* object equal to obj in every field except the two timestamps, for every
\* kind with an apply/get pair.
C1_ApplyThenGet ==
    [][ \A o \in ObjIds, project \in Projects :
          (ApplyOf(o, project) /\ last'.status = "ok") =>
              ( LET r == get(heap[o].kind, heap[o].name, project)
                IN /\ r.status = "ok"
                   /\ SameButTimestamps(r.value, heap[o]) )' ]_vars

C3_DeleteThenGet ==
    [][ \A kind \in PlainKinds, name \in Names, project \in Projects :
          /\ (DeleteOf(kind, name, project) /\ ~Stored(kind, name, project)) =>
                /\ last'.status = "NotFound"
                /\ UNCHANGED << heap, tagcell, logcell, registry, held, clock >>
          /\ (DeleteOf(kind, name, project) /\ last'.status = "ok") =>
                get(kind, name, project)'.status = "NotFound"
          /\ ( /\ get(kind, name, project).status = "NotFound"
               /\ get(kind, name, project)'.status # "NotFound" ) =>
                \E o \in ObjIds :
                    /\ heap[o].kind = kind
                    /\ heap[o].name = name
                    /\ ApplyOf(o, project) ]_vars

C3_Witness ==
    /\ last = Call("delete", "ok")
    /\ \E kind \in PlainKinds, name \in Names, p1 \in Projects, p2 \in Projects :
         /\ get(kind, name, p1).status = "NotFound"
         /\ get(kind, name, p2).status = "ok"

\* the order in which delete_feature_view looks for a name
DeleteOrder == << StreamKind, BatchKind, OnDemandKind, RequestKind >>
\* the first variant, in that order, that holds (project, name); 0 if none
FirstVariant(name, project) ==
    IF \A i \in 1..Len(DeleteOrder) : ~Stored(DeleteOrder[i], name, project)
    THEN 0
    ELSE CHOOSE i \in 1..Len(DeleteOrder) :
           /\ Stored(DeleteOrder[i], name, project)
           /\ \A j \in 1..(i - 1) : ~Stored(DeleteOrder[j], name, project)

\* C4 as stated: for each variant K, if a view of variant K named N is stored
\* under P then after a successful delete_feature_view(N, P) get_K(N, P)
\* fails with a not-found error; delete_feature_view fails with a not-found
\* error only when N is stored under P in none of the four sub-namespaces.
C4_DeleteRemovesEveryVariant ==
    [][ \A name \in Names, project \in Projects :
          delete_feature_view(name, project) =>
              /\ \A kind \in ViewKinds :
                    (Stored(kind, name, project) /\ last'.status = "ok") =>
                        get(kind, name, project)'.status = "NotFound"
              /\ last'.status = "NotFound" =>
                    \A kind \in ViewKinds : ~Stored(kind, name, project) ]_vars

\* C4 amended: a successful delete_feature_view(N, P) removes exactly one view,
\* the one of the first variant in the order Stream, Batch, OnDemand, Request
\* that holds N under P; get of that variant then fails with a not-found
\* error and every other entry stays; it fails with a not-found error exactly
\* when N is stored under P in none of the four sub-namespaces.
C4_DeleteRemovesFirstVariant ==
    [][ \A name \in Names, project \in Projects :
          delete_feature_view(name, project) =>
              LET i == FirstVariant(name, project)
              IN IF i = 0
                 THEN last'.status = "NotFound" /\ registry' = registry
                 ELSE /\ last'.status = "ok"
                      /\ \A kind \in Kinds, n \in Names, p \in Projects :
                            IF << kind, n, p >> = << DeleteOrder[i], name, project >>
                            THEN get(kind, n, p)'.status = "NotFound"
                            ELSE /\ Stored(kind, n, p)' = Stored(kind, n, p)
                                 /\ Stored(kind, n, p) =>
                                      StoredObj(kind, n, p)' = StoredObj(kind, n, p) ]_vars

\* a Batch view is still stored under both projects after the same-named
\* Stream view has been deleted from one of them
C4_Witness ==
    /\ last = Call("delete_feature_view", "ok")
    /\ \E name \in Names :
         /\ \A project \in Projects :
               Stored(BatchKind, name, project) /\ ~Stored(StreamKind, name, project)
         /\ \E o \in ObjIds : heap[o].kind = StreamKind /\ heap[o].name = name

\* the positions of a dict whose key was built for the project
Under(d, project) ==
    { i \in 1..Len(d) : \E n \in Names : d[i].k = project_key(project, n) }

\* C5: in every state and for every kind, list(P) returns exactly one copy of
\* each object of the kind stored under P and nothing else.
C5_ListExact ==
    \A kind \in Kinds, project \in Projects :
        LET r == list(kind, project)
            d == registry[RegistryOf(kind)]
        IN /\ r.status = "ok"
           /\ Len(r.value) = Cardinality(Under(d, project))
           /\ \A i \in Under(d, project) :
                 Cardinality({ j \in 1..Len(r.value) :
                                 Value(r.value[j]) = Value(heap[d[i].v]) }) = 1

\* C6: changing an object that a get or a list returned never changes what a
\* later get or list returns.
C6_ReadsIndependent ==
    [][ (\E i \in 1..MaxReads, what \in Fields, t \in TagKeys, iv \in Intervals :
            MutateCopy(i, what, t, iv)) =>
        \A kind \in Kinds, project \in Projects :
            /\ ListSeen(kind, project)' = ListSeen(kind, project)
            /\ \A name \in Names :
                  GetSeen(kind, name, project)' = GetSeen(kind, name, project) ]_vars

\* C7: after apply(obj, P) has returned, a change the caller makes to its own
\* obj does not change what get or list return.
C7_CallerObjectIndependent ==
    [][ (\E o \in ObjIds, what \in Fields, t \in TagKeys, iv \in Intervals :
            MutateOwn(o, what, t, iv)) =>
        \A kind \in Kinds, project \in Projects :
            /\ ListSeen(kind, project)' = ListSeen(kind, project)
            /\ \A name \in Names :
                  GetSeen(kind, name, project)' = GetSeen(kind, name, project) ]_vars

\* no dict holds two entries whose keys give the same (project, name)
OneEntryPerName ==
    \A attr \in DOMAIN registry :
        \A i, j \in 1..Len(registry[attr]) :
            invert_projected_key(registry[attr][i].k)
              = invert_projected_key(registry[attr][j].k) => i = j

\* C8: no sub-namespace ever holds two entries for the same (project, name),
\* and applying a feature view of one variant named N to P succeeds whenever
\* (P, N) is free in that variant's own sub-namespace, whatever the other
\* variants hold.
C8_UniquePerSubNamespace ==
    /\ []OneEntryPerName
    /\ [][ last'.fn = "apply_feature_view" =>
            \A o \in ObjIds, project \in Projects, kind \in ViewKinds, name \in Names :
              ( /\ heap[o].kind = kind
                /\ heap[o].name = name
                /\ ~Stored(kind, name, project)
                /\ apply_feature_view(o, project) ) =>
                    /\ last'.status = "ok"
                    /\ Stored(kind, name, project)'
                    /\ StoredObj(kind, name, project)' = o ]_vars

C8_Witness ==
    /\ last = Call("apply_feature_view", "ok")
    /\ \E name \in Names, project \in Projects :
         Stored(BatchKind, name, project) /\ Stored(StreamKind, name, project)

IsPrefix(s, t) == Len(s) <= Len(t) /\ SubSeq(t, 1, Len(s)) = s

\* the materialization log of the view stored under (project, name)
LogOf(kind, name, project) ==
    logcell[heap[StoredObj(kind, name, project)].materialization_intervals]

LoggedKinds == { BatchKind, StreamKind }

\* C9: for every Batch or Stream view that stays stored, every operation
\* leaves its earlier log as a prefix of its later log, and a successful
\* apply_materialization adds its (start, end) as the new last element.
C9_LogAppendOnly ==
    [][ /\ \A kind \in LoggedKinds, name \in Names, project \in Projects :
              (Stored(kind, name, project) /\ Stored(kind, name, project)') =>
                  IsPrefix(LogOf(kind, name, project), LogOf(kind, name, project)')
        /\ last' = Call("apply_materialization", "ok") =>
              \A o \in ObjIds, project \in Projects, iv \in Intervals, name \in Names :
                  ( /\ heap[o].name = name
                    /\ apply_materialization(o, project, iv[1], iv[2]) ) =>
                      \E kind \in LoggedKinds :
                          /\ Stored(kind, name, project)
                          /\ LogOf(kind, name, project)'
                               = Append(LogOf(kind, name, project), iv) ]_vars

C9_Witness ==
    /\ last = Call("apply_materialization", "ok")
    /\ \E kind \in LoggedKinds, name \in Names, project \in Projects :
         /\ Stored(kind, name, project)
         /\ Len(LogOf(kind, name, project)) = 2
         /\ LogOf(kind, name, project)[1] # LogOf(kind, name, project)[2]

\* C10: a successful apply_materialization(view, P, s, e) appends (s, e) to
\* the log of exactly one view stored as view.name under P, a Batch or a
\* Stream view, and every other stored entry, of the other variant or of
\* another project, reads as it did before.
C10_MaterializationFrame ==
    [][ last' = Call("apply_materialization", "ok") =>
        \A o \in ObjIds, project \in Projects, iv \in Intervals, name \in Names :
          ( /\ heap[o].name = name
            /\ apply_materialization(o, project, iv[1], iv[2]) ) =>
              \E kind \in LoggedKinds :
                 /\ Stored(kind, name, project)
                 /\ LogOf(kind, name, project)'
                      = Append(LogOf(kind, name, project), iv)
                 /\ \A k \in ViewKinds, n \in Names, p \in Projects :
                       ( /\ << k, n, p >> # << kind, name, project >>
                         /\ Stored(k, n, p) ) =>
                             /\ Stored(k, n, p)'
                             /\ Value(heap[StoredObj(k, n, p)])'
                                  = Value(heap[StoredObj(k, n, p)]) ]_vars

\* C11: apply_materialization(view, P, s, e) raises the not-found error exactly
\* when neither a Batch nor a Stream view named view.name is stored under P,
\* whatever is stored as an OnDemand or Request view or under another project,
\* and then it leaves every object and every dict as it was.
C11_MaterializationNotFound ==
    [][ last'.fn = "apply_materialization" =>
        \A o \in ObjIds, project \in Projects, iv \in Intervals, name \in Names :
          ( /\ heap[o].name = name
            /\ apply_materialization(o, project, iv[1], iv[2]) ) =>
              /\ last'.status \in { "ok", "NotFound" }
              /\ last'.status = "NotFound"
                   <=> \A kind \in LoggedKinds : ~Stored(kind, name, project)
              /\ last'.status = "NotFound" =>
                   UNCHANGED << heap, tagcell, logcell, registry, held >> ]_vars

\* the name is stored under P as an OnDemand view only and under another
\* project as a Batch view, and the call for P has just failed
C11_Witness ==
    /\ last = Call("apply_materialization", "NotFound")
    /\ \E name \in Names, project \in Projects, other \in Projects :
         /\ other # project
         /\ Stored(OnDemandKind, name, project)
         /\ ~Stored(BatchKind, name, project)
         /\ ~Stored(StreamKind, name, project)
         /\ Stored(BatchKind, name, other)

\* C12: for every kind, a successful apply leaves the applied object with its
\* created_timestamp set, and a created_timestamp that is set keeps its value
\* for as long as the object stays stored.
C12_CreatedTimestampSetOnce ==
    [][ /\ \A o \in ObjIds, project \in Projects :
              (ApplyOf(o, project) /\ last'.status = "ok") =>
                  heap'[o].created_timestamp # NoTime
        /\ \A kind \in Kinds, name \in Names, project \in Projects :
              ( /\ Stored(kind, name, project)
                /\ Stored(kind, name, project)'
                /\ heap[StoredObj(kind, name, project)].created_timestamp # NoTime ) =>
                    heap'[StoredObj(kind, name, project)].created_timestamp
                      = heap[StoredObj(kind, name, project)].created_timestamp ]_vars

\* C13: every successful apply, of every kind, and every successful
\* apply_materialization leaves the last_updated_timestamp of the object it
\* stored or materialized at the time of the call.
C13_LastUpdatedRefreshed ==
    [][ /\ \A o \in ObjIds, project \in Projects :
              (ApplyOf(o, project) /\ last'.status = "ok") =>
                  heap'[o].last_updated_timestamp = clock
        /\ last' = Call("apply_materialization", "ok") =>
              \A o \in ObjIds, project \in Projects, iv \in Intervals, name \in Names :
                  ( /\ heap[o].name = name
                    /\ apply_materialization(o, project, iv[1], iv[2]) ) =>
                      \E kind \in LoggedKinds :
                          /\ Stored(kind, name, project)
                          /\ heap'[StoredObj(kind, name, project)].last_updated_timestamp
                               = clock ]_vars

\* C14: over every registry operation the last_updated_timestamp of a view
\* that stays stored does not decrease, and a successful apply_materialization
\* leaves it greater than or equal to what it was.
C14_LastUpdatedMonotone ==
    [][ /\ \A kind \in ViewKinds, name \in Names, project \in Projects :
              (Stored(kind, name, project) /\ Stored(kind, name, project)') =>
                  heap'[StoredObj(kind, name, project)'].last_updated_timestamp
                    >= heap[StoredObj(kind, name, project)].last_updated_timestamp
        /\ last' = Call("apply_materialization", "ok") =>
              \A o \in ObjIds, project \in Projects, iv \in Intervals, name \in Names :
                  ( /\ heap[o].name = name
                    /\ apply_materialization(o, project, iv[1], iv[2]) ) =>
                      \E kind \in LoggedKinds :
                          /\ Stored(kind, name, project)
                          /\ heap'[StoredObj(kind, name, project)].last_updated_timestamp
                               >= heap[StoredObj(kind, name, project)].last_updated_timestamp
                          /\ heap'[StoredObj(kind, name, project)].last_updated_timestamp
                               # NoTime ]_vars

\* a stored view has been materialized twice, the second time at the last
\* moment of the clock
C14_Witness ==
    /\ last = Call("apply_materialization", "ok")
    /\ clock = MaxTime
    /\ \E kind \in LoggedKinds, name \in Names, project \in Projects :
         /\ Stored(kind, name, project)
         /\ Len(LogOf(kind, name, project)) = 2
         /\ heap[StoredObj(kind, name, project)].last_updated_timestamp = MaxTime

\* C15: after apply_saved_dataset(d, P) succeeds, get_saved_dataset(d.name, P)
\* returns an object equal to d and list_saved_datasets(P) contains it; after
\* delete_saved_dataset(d.name, P) the name is no longer stored under P.
C15_SavedDatasetCrud ==
    [][ /\ \A o \in ObjIds, project \in Projects :
              (apply_saved_dataset(o, project) /\ last'.status = "ok") =>
                  ( LET r == get_saved_dataset(heap[o].name, project)
                        l == list_saved_datasets(project)
                    IN /\ r.status = "ok"
                       /\ r.value # None
                       /\ Value(r.value) = Value(heap[o])
                       /\ l.status = "ok"
                       /\ l.value # None
                       /\ \E i \in DOMAIN l.value :
                             Value(l.value[i]) = Value(heap[o]) )'
        /\ \A name \in Names, project \in Projects :
              ( /\ Stored(SavedDatasetKind, name, project)
                /\ delete_saved_dataset(name, project) ) =>
                    ~Stored(SavedDatasetKind, name, project)' ]_vars

\* C16: once update_registry_proto(R) has returned, get_registry_proto
\* returns R until the next update or teardown; when nothing has been
\* written and the table holds no row it returns the empty catalog.
C16_SnapshotRoundTrip ==
    /\ written.set => get_registry_proto = [status |-> "ok", value |-> written.proto]
    /\ (~written.set /\ table.rows = << >>) =>
           get_registry_proto = [status |-> "ok", value |-> EmptyProto]

\* C17: when the server cannot be reached, get_registry_proto returns the
\* empty catalog and raises nothing.
C17_UnreachableReadsEmpty ==
    ~db_up => get_registry_proto = [status |-> "ok", value |-> EmptyProto]

\* C18: the store has no fail-open setting, and a read while the server
\* cannot be reached raises an error to the caller instead of returning an
\* empty catalog.
C18_NoSilentDegrade ==
    /\ []( ~db_up => get_registry_proto.status # "ok" )
    /\ [][ (GetRegistryProto /\ ~db_up) => call'.status # "ok" ]_vars

\* a caller has just read while the server was away
C18_Witness ==
    /\ ~db_up
    /\ call.fn = "get_registry_proto"
    /\ call.status # "ok"

\* the batch holds every source feature under one of its names at least, and
\* every request field
InputComplete(self, features) ==
    /\ \A i \in 1..Len(SourceFeatures(self)) :
          LET p == SourceFeatures(self)[i]
          IN Has(features, p.feature) \/ Has(features, Join(p.view, p.feature))
    /\ \A i \in 1..Len(self.source_request_sources) :
          Has(features, self.source_request_sources[i])

\* the name under which a declared output is to be reported
Reported(self, o, full_feature_names) ==
    IF full_feature_names THEN _get_projected_feature_name(self, o) ELSE o

\* two executions agree on every declared output, each under its own naming
SameOutputs(self, r1, full1, r2, full2) ==
    \A j \in 1..Len(self.features) :
        LET o == self.features[j]
        IN /\ Has(r1.value, Reported(self, o, full1))
           /\ Has(r2.value, Reported(self, o, full2))
           /\ Lookup(r1.value, Reported(self, o, full1))
                = Lookup(r2.value, Reported(self, o, full2))

\* C19: on a complete batch, an execution in either mode succeeds with either
\* setting of full_feature_names, and the two settings report the same
\* values, row by row, for every declared output, under different names.
C19_FullNamesSameValues ==
    [][ \A mode \in Modes, full_feature_names \in BOOLEAN :
          ( /\ InputComplete(definition, batch)
            /\ Transform(mode, full_feature_names) ) =>
              LET other == Engine(mode, definition, batch, ~full_feature_names)
              IN /\ result'.status = "ok"
                 /\ other.status = "ok"
                 /\ SameOutputs(definition, result', full_feature_names,
                                other, ~full_feature_names) ]_vars

\* C20: on a complete batch, the execution in tabular mode and the execution
\* in row mode both succeed and report the same values for every declared
\* output and every row, for both settings of full_feature_names and for
\* batches that name the source features short, qualified or both ways.
C20_ModesAgree ==
    [][ \A mode \in Modes, full_feature_names \in BOOLEAN :
          ( /\ InputComplete(definition, batch)
            /\ Transform(mode, full_feature_names) ) =>
              LET other == Engine(CHOOSE m \in Modes : m # mode, definition,
                                  batch, full_feature_names)
              IN /\ result'.status = "ok"
                 /\ other.status = "ok"
                 /\ SameOutputs(definition, result', full_feature_names,
                                other, full_feature_names) ]_vars

\* the transformation was called at least once where the code calls it: once
\* per execution in tabular mode, once per row in row mode
Reached ==
    (result.mode = "pandas" \/ NumRows(batch) > 0) => result.calls # << >>

\* C21: after an execution in either mode, for every feature f of every source
\* projection V that the batch holds under one of its names at least, every
\* input handed to the transformation holds both "V__f" and "f", with the same
\* value, and the transformation was handed an input.
C21_BothNamesHanded ==
    result.mode # "none" =>
      \A i \in 1..Len(SourceFeatures(definition)) :
         LET short == SourceFeatures(definition)[i].feature
             long == Join(SourceFeatures(definition)[i].view, short)
         IN (Has(batch, short) \/ Has(batch, long)) =>
              /\ Reached
              /\ \A c \in 1..Len(result.calls) :
                    /\ Has(result.calls[c], short)
                    /\ Has(result.calls[c], long)
                    /\ Lookup(result.calls[c], short)
                         = Lookup(result.calls[c], long)

\* name ends with "__" and the field: a qualified name of the field
Qualifies(name, field) ==
    /\ Len(name) > Len(field) + 1
    /\ SubSeq(name, Len(name) - Len(field), Len(name)) = << "__" >> \o field

\* C22: after an execution in either mode on a batch that holds a request
\* field, the engine itself has raised nothing, and every input handed to the
\* transformation holds the field under its declared name with the value of
\* the batch and under no qualified name.
C22_RequestFieldsUnqualified ==
    result.mode # "none" =>
      \A i \in 1..Len(definition.source_request_sources) :
         LET r == definition.source_request_sources[i]
         IN Has(batch, r) =>
              /\ ~(result.by = "engine" /\ result.status # "ok")
              /\ Reached
              /\ \A c \in 1..Len(result.calls) :
                    /\ Has(result.calls[c], r)
                    /\ Lookup(result.calls[c], r)
                         = IF result.mode = "pandas" THEN Lookup(batch, r)
                           ELSE Lookup(batch, r)[c]
                    /\ \A j \in 1..Len(result.calls[c]) :
                          ~Qualifies(result.calls[c][j].k, r)

\* what the transformation returned for the c-th input it was handed
RawOutput(c) ==
    IF result.mode = "pandas" THEN udf_df(definition, result.calls[c])
    ELSE udf_row(definition, result.calls[c])

\* the name under which a raw output holds the declared output o
Present(raw, o) ==
    IF Has(raw, o) THEN o ELSE _get_projected_feature_name(definition, o)

\* C23: after an execution in either mode in which the transformation was
\* invoked and returned every time, the execution has succeeded and, for every
\* declared output, the result holds under the requested name (qualified when
\* full_feature_names, short otherwise) the values the transformation
\* returned under whichever of the two names it used.
C23_OutputsRenamed ==
    ( /\ result.mode # "none"
      /\ result.calls # << >>
      /\ \A c \in 1..Len(result.calls) : RawOutput(c).status = "ok" ) =>
        /\ result.status = "ok"
        /\ \A j \in 1..Len(definition.features) :
              LET o == definition.features[j]
                  want == Reported(definition, o, result.full_feature_names)
              IN /\ Has(result.value, want)
                 /\ \A c \in 1..Len(result.calls) :
                       LET raw == RawOutput(c).value
                       IN Lookup(raw, Present(raw, o))
                            = IF result.mode = "pandas"
                              THEN Lookup(result.value, want)
                              ELSE Lookup(result.value, want)[c]

\* a name the batch does not hold and step 1 adds: the other name of a source
\* feature
AddedByStep1(name) ==
    /\ ~Has(batch, name)
    /\ \E i \in 1..Len(SourceFeatures(definition)) :
          LET short == SourceFeatures(definition)[i].feature
              long == Join(SourceFeatures(definition)[i].view, short)
          IN \/ name = short /\ Has(batch, long)
             \/ name = long /\ Has(batch, short)

\* a name of the declared output schema, short or qualified
Declared(name) ==
    \E j \in 1..Len(definition.features) :
        name \in { definition.features[j],
                   _get_projected_feature_name(definition, definition.features[j]) }

\* C24: the result of a successful execution, in either mode, holds no column
\* that step 1 added and the output schema does not declare, and holds every
\* declared output under one of its names.
C24_NoStep1Columns ==
    (result.mode # "none" /\ result.status = "ok") =>
        /\ \A j \in 1..Len(result.value) :
              AddedByStep1(result.value[j].k) => Declared(result.value[j].k)
        /\ \A j \in 1..Len(definition.features) :
              \/ Has(result.value, definition.features[j])
              \/ Has(result.value, _get_projected_feature_name(
                                       definition, definition.features[j]))

\* an invocation of the transformation has failed
InvocationFailed == result.by = "udf" /\ result.status # "ok"

\* C25: an execution in tabular mode invokes the transformation once, whatever
\* the number of rows; an execution in row mode invokes it on the rows in row
\* order, once each, on every row unless an invocation failed; and an
\* invocation that failed is the last one.
C25_InvokedOncePerUnit ==
    result.mode # "none" =>
        /\ result.mode = "pandas" => Len(result.calls) = 1
        /\ result.mode = "python" =>
              /\ InvocationFailed \/ Len(result.calls) = NumRows(batch)
              /\ Len(result.calls) <= NumRows(batch)
              /\ \A c \in 1..Len(result.calls) :
                    \A j \in 1..Len(batch) :
                        /\ Has(result.calls[c], batch[j].k)
                        /\ Lookup(result.calls[c], batch[j].k) = batch[j].v[c]
        /\ \A c \in 1..(Len(result.calls) - 1) : RawOutput(c).status = "ok"

\* C26: when an invocation of the transformation raises, in either mode, the
\* execution ends with a TransformationExecutionError that carries the name
\* of the definition.
C26_UdfErrorWrapped ==
    ( /\ result.mode # "none"
      /\ \E c \in 1..Len(result.calls) : RawOutput(c).status # "ok" ) =>
        /\ result.status = "TransformationExecutionError"
        /\ result.value = definition.name

\* the rows of row mode as a batch: one column per key, one cell per row
AsBatch(rows) ==
    IF rows = << >> THEN << >>
    ELSE [ j \in 1..Len(rows[1]) |->
             [ k |-> rows[1][j].k,
               v |-> [ i \in 1..Len(rows) |-> Lookup(rows[i], rows[1][j].k) ] ] ]

\* the names a dict or a frame holds, with their values
Cells(d) == { d[i] : i \in 1..Len(d) }

\* C28: step 1 run on its own output gives the names and values it gave the
\* first time: in tabular mode on the frame it built, in row mode on the
\* rows it built, whenever the first run built any.
C28_Step1Idempotent ==
    /\ LET once == df_with_both_names(definition, batch)
       IN Cells(df_with_both_names(definition, once)) = Cells(once)
    /\ LET once == dict_rows(definition, batch)
       IN (once.status = "ok" /\ once.value # << >>) =>
            LET twice == dict_rows(definition, AsBatch(once.value))
            IN /\ twice.status = "ok"
               /\ Cells(AsBatch(twice.value)) = Cells(AsBatch(once.value))

\* the two definitions have equal source projections, request sources and
\* declared outputs, and transformations of identical compiled code
SameDefinition(a, b) ==
    /\ dict_eq(a.source_feature_view_projections,
               b.source_feature_view_projections)
    /\ dict_eq(a.source_request_sources, b.source_request_sources)
    /\ a.features = b.features
    /\ a.udf.co_code = b.udf.co_code

\* C27: a comparison of two on-demand definitions answers true exactly when
\* their source projections, request sources and declared outputs are equal
\* and their transformations have identical compiled code, whatever the text
\* recorded for the transformations.
C27_EqualByCompiledCode ==
    (last.fn = "__eq__" /\ last.status = "ok") =>
        last.value = SameDefinition(heap[last.self], heap[last.other])

\* C29: a construction with a mode other than "python" and "pandas" raises
\* the constructor's error and adds no definition; every definition that
\* exists has one of the two modes; and no call of get_transformed_features
\* takes the invalid-mode branch.
C29_ModeChecked ==
    /\ [](\A i \in 1..Len(heap) : heap[i].mode \in Modes)
    /\ [](last.fn = "get_transformed_features" => last.branch # "invalid")
    /\ [][ (last'.fn = "OnDemandFeatureView" /\ last'.mode \notin Modes) =>
             (last'.status = "Exception" /\ heap' = heap) ]_vars

\* a construction with mode "spark" has failed while a definition exists
C29_Witness ==
    /\ last = DefCall("OnDemandFeatureView", "Exception", << "a" >>, "spark", "")
    /\ Len(heap) = 1
    /\ heap[1].mode = "python"

\* C30: the decorator, given a supported mode or none, returns a definition
\* named after the decorated function, of the mode given or of mode "pandas"
\* when none was given.
C30_DecoratorBuildsView ==
    (last.fn = "on_demand_feature_view" /\ last.mode \in Modes \cup { "absent" }) =>
        /\ last.status = "ok"
        /\ heap # << >>
        /\ heap[Len(heap)].name = last.name
        /\ heap[Len(heap)].mode
             = IF last.mode = "absent" THEN "pandas" ELSE last.mode

\* the names of the columns of a frame, in order
ColumnNames(df) == [ i \in 1..Len(df) |-> df[i].k ]

\* C31: infer_features on a definition declared with no schema calls the
\* transformation once, on an input of one row, and leaves the definition
\* with the columns that call returned as its schema.
C31_SchemaInferred ==
    [][ (result'.mode = "infer" /\ definition.features = << >>) =>
          /\ Len(result'.calls) = 1
          /\ NumRows(result'.calls[1]) = 1
          /\ definition'.features
               = ColumnNames(udf_df(definition, result'.calls[1]).value) ]_vars

\* C32: apply_feature_view of an object that is none of the four variants
\* raises the unknown-kind error and changes no sub-namespace; a successful
\* apply_feature_view of a Stream view stores it in the Stream sub-namespace
\* and leaves the Batch one as it was.
C32_UnknownKindRejected ==
    [][ last'.fn = "apply_feature_view" =>
          \A o \in ObjIds, project \in Projects :
            apply_feature_view(o, project) =>
              /\ heap[o].kind \notin ViewKinds =>
                    /\ last'.status = "UnknownKind"
                    /\ registry' = registry
              /\ (heap[o].kind = StreamKind /\ last'.status = "ok") =>
                    /\ Stored(StreamKind, heap[o].name, project)'
                    /\ StoredObj(StreamKind, heap[o].name, project)' = o
                    /\ registry'.feature_views = registry.feature_views ]_vars

\* an object of no variant has just been refused while a Stream view is stored
C32_Witness ==
    /\ last = Call("apply_feature_view", "UnknownKind")
    /\ registry.stream_feature_views # << >>
    /\ registry.feature_views = << >>

C34_FailureChangesNothing ==
    [][ last'.status # "ok" =>
          /\ registry' = registry
          /\ \A o \in ObjIds :
                (\E attr \in DOMAIN registry : \E i \in 1..Len(registry[attr]) :
                    registry[attr][i].v = o) =>
                  /\ heap'[o] = heap[o]
                  /\ tagcell'[heap[o].tags] = tagcell[heap[o].tags]
                  /\ logcell'[heap[o].materialization_intervals]
                       = logcell[heap[o].materialization_intervals] ]_vars


(* C35 *)
\* two calls of apply that are under way and meet on one key of one registry
\* dict; rivals pass different objects
Meet(c, d) ==
    /\ c # d
    /\ callers[c].pc # "idle" /\ callers[d].pc # "idle"
    /\ callers[c].attr = callers[d].attr /\ callers[c].key = callers[d].key
Rivals(c, d) == Meet(c, d) /\ callers[c].obj # callers[d].obj
Ended(c, status) == callers[c].pc = "done" /\ callers[c].status = status
StoredFor(c) == Lookup(registry[callers[c].attr], callers[c].key)

\* C35 (as the code has it): concurrent applies of different objects of one
\* kind to one (project, name), their membership tests and insertions
\* interleaved: a call that tests after a rival has inserted fails with a
\* duplicate-object error and changes nothing; a call that tests before any
\* insertion goes on to insert, succeeds and overwrites whatever a rival
\* stored meanwhile; so at least one call succeeds, both may, and the object
\* stored is the one inserted last
C35_LastInsertWins ==
    /\ [](\A c \in Callers :
            /\ Ended(c, "Duplicate") =>
                  \E d \in Callers : Meet(c, d) /\ Ended(d, "ok")
            /\ Ended(c, "ok") =>
                  \E d \in Callers :
                      /\ Ended(d, "ok")
                      /\ callers[d].attr = callers[c].attr
                      /\ callers[d].key = callers[c].key
                      /\ StoredFor(c) = callers[d].obj)
    /\ [][\A c \in Callers :
            callers'[c] # callers[c] =>
                /\ (callers[c].pc = "checked") =>
                      /\ Ended(c, "ok")'
                      /\ StoredFor(c)' = callers[c].obj
                /\ (callers[c].pc = "idle") =>
                      /\ registry' = registry
                      /\ LET at == callers'[c]
                         IN IF Has(registry[at.attr], at.key)
                            THEN at.pc = "done" /\ at.status = "Duplicate"
                            ELSE at.pc = "checked"]_vars

\* both calls have succeeded on the one key
C35_Witness ==
    \E c, d \in Callers : Rivals(c, d) /\ Ended(c, "ok") /\ Ended(d, "ok")

\* C35 (as stated): of two such calls exactly one succeeds, the other fails
\* with a duplicate-object error, and the object stored afterwards is the one
\* the successful call passed
C35_ExactlyOneSucceeds ==
    \A c, d \in Callers :
        (Rivals(c, d) /\ callers[c].pc = "done" /\ callers[d].pc = "done") =>
            \/ /\ Ended(c, "ok") /\ Ended(d, "Duplicate")
               /\ StoredFor(c) = callers[c].obj
            \/ /\ Ended(d, "ok") /\ Ended(c, "Duplicate")
               /\ StoredFor(d) = callers[d].obj


(* C36 *)
\* what the callers of project Q get from the registry as it stands: the
\* result of every list and get, and whether an apply or a delete of a name
\* would find its key
Answers(Q) ==
    [ kind \in ColonKinds |->
        [ list |-> list(kind, Q),
          get |-> [name \in ColonNames |-> get(kind, name, Q)],
          taken |-> [name \in ColonNames |->
                       Has(registry[RegistryOf(kind)], project_key(Q, name))],
          deletable |-> [name \in ColonNames |->
                           first_holding(project_key(Q, name), 1) # 0] ] ]

\* C36: for all project and name strings, those with ':' included, distinct
\* (project, name) pairs have distinct storage keys, so that a successful
\* apply to project P leaves the outcome of every apply, get, delete and list
\* on another project Q as it was.
C36_ProjectsIsolated ==
    [][ (last'.fn = "apply_feature_view" /\ last'.status = "ok") =>
          \A o \in ObjIds, P \in ColonProjects :
              apply_feature_view(o, P) =>
                  \A Q \in ColonProjects \ { P } : Answers(Q)' = Answers(Q)
      ]_vars


(* C37 *)
\* the view delete_feature_view(name, project) removes: the one behind the
\* key in the first dict of fv_registries that holds it
Removed(name, project) ==
    LET key == project_key(project, name)
    IN Lookup(registry[fv_registries[first_holding(key, 1)]], key)

\* C37: with a Batch view and a Stream view both stored under one
\* (project, name), the view apply_materialization appends to is the view
\* delete_feature_view removes.
C37_SameViewResolved ==
    [][ last' = Call("apply_materialization", "ok") =>
        \A o \in ObjIds, project \in Projects, iv \in Intervals :
          ( /\ Stored(BatchKind, heap[o].name, project)
            /\ Stored(StreamKind, heap[o].name, project)
            /\ apply_materialization(o, project, iv[1], iv[2]) ) =>
              LET cell == heap[Removed(heap[o].name, project)]
                              .materialization_intervals
              IN logcell'[cell] = Append(logcell[cell], iv) ]_vars


(* C38 *)
\* the number of input rows of a dict of columns: the length of its longest
\* column
RowCount(feature_dict) ==
    IF feature_dict = << >> THEN 0
    ELSE CHOOSE n \in 0..MaxBatch :
           /\ \A j \in 1..Len(feature_dict) : Len(feature_dict[j].v) <= n
           /\ \E j \in 1..Len(feature_dict) : Len(feature_dict[j].v) = n

\* C38: the result of a row-mode execution has exactly the declared outputs
\* as keys, named as full_feature_names asks, each with one value per input
\* row in input order, the i-th being what the transformation returned for
\* the i-th input row; no input row is dropped, whatever the lengths of the
\* input columns.
C38_RowPerInputRow ==
    (result.mode = "python" /\ result.status = "ok") =>
        /\ Len(result.value) = Len(definition.features)
        /\ \A j \in 1..Len(definition.features) :
              LET o == definition.features[j]
                  want == Reported(definition, o, result.full_feature_names)
              IN /\ Has(result.value, want)
                 /\ Len(Lookup(result.value, want)) = RowCount(batch)
                 /\ \A c \in 1..Len(result.calls) :
                       LET raw == RawOutput(c).value
                       IN Lookup(result.value, want)[c]
                            = Lookup(raw, Present(raw, o))
        /\ Len(result.calls) = RowCount(batch)
        /\ \A c \in 1..Len(result.calls) : \A j \in 1..Len(batch) :
              c <= Len(batch[j].v) =>
                  /\ Has(result.calls[c], batch[j].k)
                  /\ Lookup(result.calls[c], batch[j].k) = batch[j].v[c]


(* C39 *)
\* the type of batch a mode works on
BatchType(mode) == IF mode = "python" THEN "dict" ELSE "DataFrame"

\* C39: get_transformed_features(batch, full_feature_names) returns what the
\* engine of the definition's mode returns on the caller's batch and flag:
\* the row engine for "python", the tabular engine for "pandas".
C39_DispatchIsEngine ==
    [][ \A full_feature_names \in BOOLEAN :
          Dispatch(BatchType(definition.mode), full_feature_names) =>
              result' = Executed(definition.mode, full_feature_names,
                                 Engine(definition.mode, definition, batch,
                                        full_feature_names)) ]_vars

====
